---- MODULE Spec2Model ----
(***************************************************************************)
(* Verification model of sv (ZimboPro/sv): the cross validation of the     *)
(* Terraform lambda data against the OpenAPI data (cross_validation.rs),   *)
(* the extraction of method and route from a lambda permission source ARN  *)
(* (terraform.rs, handle_api_gateway_lambda) and the checks of lambda.tf   *)
(* (terraform.rs, validate_lambda).                                        *)
(*                                                                         *)
(* Strings that the code only compares for equality (paths, lambda keys,   *)
(* HttpMethod values) are TLA+ strings.  Strings the code searches,        *)
(* splits or rewrites are sequences of one-character strings.              *)
(***************************************************************************)
EXTENDS Integers, Sequences, FiniteSets, TLC

VARIABLES
  lambda_data,     \* cross_validation: Vec<Lambda>
  open_api_data,   \* cross_validation: Vec<OpenAPIData>
  cv_pc,           \* position inside cross_validation
  cv_valid,        \* the local `valid` of cross_validation
  cv_log,          \* what error!/warn! have written so far
  cv_result,       \* "none" until cross_validation returns, then "Ok" / "Err"
  fw_data,         \* validate_lambda_against_open_api: open_api_data
  fw_arn_key,      \* validate_lambda_against_open_api: arn_key
  fw_api,          \* validate_lambda_against_open_api: api
  fw_result,       \* <<>> until it returns, then <<the bool returned>>
  source_arn,      \* handle_api_gateway_lambda: source_arn
  arn_pc,          \* position inside validate_lambda_permissions
  arn_data,        \* what handle_api_gateway_lambda returned
  arn_api,         \* the APIPath pushed to Lambda.apis
  reg_tree,        \* validate_lambda: the declarations hcl::parse found
  lambda_contents, \* validate_lambda: the text of lambda.tf
  lambda_metadata, \* validate_lambda: Vec<Lambda>
  reg_pc,          \* position inside validate_lambda
  reg_locals,      \* validate_lambda: the text `locals` once it is cut
  reg_valid,       \* the local `valid` of validate_lambda
  reg_log,         \* the error! lines of validate_lambda
  reg_result,      \* "none", then "Ok" / "Err" / "panic"
  oa_doc,          \* extract_api_data: doc.paths
  oa_pc,           \* position inside extract_api_data
  oa_i,            \* the path item the for loop is at
  oa_data,         \* extract_api_data: data
  oa_log,          \* the warn! lines of extract_api_data_for_item
  oa_err,          \* the error that `?` passes on
  oa_result,       \* what extract_api_data returned
  tf_in,           \* validate_terraform: the files of the directory
  tf_pc,           \* position inside validate_terraform
  tf_lambdas,      \* validate_terraform: lambda_metadata / lambda_data
  tf_log,          \* the error! lines of the stages, with their stage
  tf_stages,       \* the stages that have run, in order
  tf_result,       \* what validate_terraform returned
  int_config,      \* validate_aws_api_gateway_integration: config.extensions
  int_arn_key,     \* validate_aws_api_gateway_integration: arn_key
  int_pc,          \* position inside validate_aws_api_gateway_integration
  int_valid,       \* the local `valid` of it
  int_log,         \* the error! lines of it
  int_result       \* what it returned

cv_vars == <<lambda_data, open_api_data, cv_pc, cv_valid, cv_log, cv_result>>
fw_vars == <<fw_data, fw_arn_key, fw_api, fw_result>>
arn_vars == <<source_arn, arn_pc, arn_data, arn_api>>
reg_vars ==
  <<reg_tree, lambda_contents, lambda_metadata, reg_pc, reg_locals, reg_valid,
    reg_log, reg_result>>
oa_vars == <<oa_doc, oa_pc, oa_i, oa_data, oa_log, oa_err, oa_result>>
tf_vars == <<tf_in, tf_pc, tf_lambdas, tf_log, tf_stages, tf_result>>
int_vars ==
  <<int_config, int_arn_key, int_pc, int_valid, int_log, int_result>>
vars == <<cv_vars, fw_vars, arn_vars, reg_vars, oa_vars, tf_vars, int_vars>>

----------------------------------------------------------------------------
(* Bounds of the model *)

\* routes (APIPath) of one lambda
MaxApis == 1
\* items of open_api_data
MaxEndpoints == 2

----------------------------------------------------------------------------
(* Generic helpers *)

SeqUpTo(S, n) == UNION {[1..k -> S] : k \in 0..n}

\* t occurs in s starting at position i
MatchAt(s, t, i) ==
  /\ i >= 1
  /\ i + Len(t) - 1 <= Len(s)
  /\ \A k \in 1..Len(t) : s[i + k - 1] = t[k]

\* str::contains(&str)
Contains(s, t) == \E i \in 1..(Len(s) - Len(t) + 1) : MatchAt(s, t, i)

\* Option<T>: None is <<>>, Some(v) is <<v>>
NoneOpt == <<>>
Some(v) == <<v>>
IsSome(o) == Len(o) = 1
Unwrap(o) == o[1]

----------------------------------------------------------------------------
(* cross_validation.rs *)

\* The values of the inputs the model draws from
Paths == {"/p", "/q"}
ArnA == <<"a">>
UriWithArn == <<"x", "a", "y">>
UriWithoutArn == <<"x", "y">>

\* routes of the lambdas: two routes on one path and a route on another one
ApiPaths ==
  {[method |-> "GET", route |-> "/p"], [method |-> "ANY", route |-> "/p"],
   [method |-> "GET", route |-> "/q"]}

\* The keys of the lambdas of lambda_data, in the order of declaration
LambdaKeys == <<"k1", "k2">>

LambdaAt(i) ==
  [key : {LambdaKeys[i]}, apis : SeqUpTo(ApiPaths, MaxApis),
   arn_template_key : {NoneOpt, Some(ArnA)}]

\* The items with one of the given (path, method) pairs: a Lambda item with or
\* without the placeholder in its uri, a StepFunction item, an SQS item
EndpointsAt(slots) ==
  {[path |-> sl[1], method |-> sl[2], uri |-> k[1], execution_type |-> k[2]] :
     sl \in slots,
     k \in {<<UriWithArn, "Lambda">>, <<UriWithoutArn, "Lambda">>,
            <<UriWithoutArn, "StepFunction">>, <<UriWithArn, "SQS">>}}

\* operations of the document: two methods on one path, one on another path
Endpoints == EndpointsAt({<<"/p", "GET">>, <<"/p", "POST">>, <<"/q", "GET">>})

LambdaLists ==
  UNION {{s \in [1..n -> UNION {LambdaAt(i) : i \in 1..n}] :
            \A i \in 1..n : s[i].key = LambdaKeys[i]} : n \in 0..Len(LambdaKeys)}

\* open_api.rs:339-357: the order in which extract_api_data pushes the
\* operations of one path
MethodRank(m) ==
  CASE m = "GET" -> 1 [] m = "POST" -> 2 [] m = "PUT" -> 3
    [] m = "PATCH" -> 4 [] m = "DELETE" -> 5

\* open_api.rs:333-360: what extract_api_data returns holds the paths one after
\* the other and, per path, at most one item per method
IsExtracted(s) ==
  /\ \A i, j \in 1..Len(s) :
       (i < j /\ s[i].path = s[j].path) =>
         MethodRank(s[i].method) < MethodRank(s[j].method)
  /\ \A i, j, k \in 1..Len(s) :
       (i < k /\ k < j /\ s[i].path = s[j].path) => s[k].path = s[i].path

ExtractedLists == {s \in SeqUpTo(Endpoints, MaxEndpoints) : IsExtracted(s)}

Entry(sev, msg, key, method, path) ==
  [sev |-> sev, msg |-> msg, key |-> key, method |-> method, path |-> path]

\* cross_validation.rs:70
FilterPath(data, api) == SelectSeq(data, LAMBDA x : x.path = api.route)

\* FilterMethod without the HttpMethod::Any alternative
FilterMethod_NoAny(data, api) ==
  SelectSeq(data, LAMBDA x : x.method = api.method)

\* cross_validation.rs:79
FilterMethod(data, api) ==
  SelectSeq(data, LAMBDA x : api.method = "ANY" \/ x.method = api.method)

\* cross_validation.rs:91-99, the closure of for_each applied from element i on
RECURSIVE CheckUris(_, _, _, _, _, _)
CheckUris(filtered, arn_key, lambda_key, api, i, acc) ==
  IF i > Len(filtered) THEN acc
  ELSE LET x == filtered[i]
           bad == x.execution_type = "Lambda" /\ ~Contains(x.uri, arn_key)
           acc2 == IF bad
                   THEN [valid |-> FALSE,
                         log |-> Append(acc.log,
                                   Entry("error", "uri_without_arn", lambda_key,
                                         api.method, api.route))]
                   ELSE acc
       IN CheckUris(filtered, arn_key, lambda_key, api, i + 1, acc2)

\* cross_validation.rs:62-103: the returned bool and the lines logged
validate_lambda_against_open_api(data, arn_key, lambda_key, api) ==
  LET filtered == FilterPath(data, api)
  IN IF Len(filtered) = 0
     THEN [valid |-> FALSE,
           log |-> <<Entry("error", "path_not_in_openapi", lambda_key,
                           api.method, api.route)>>]
     ELSE LET filtered2 == FilterMethod(filtered, api)
          IN IF Len(filtered2) = 0
             THEN [valid |-> FALSE,
                   log |-> <<Entry("error", "method_not_in_openapi", lambda_key,
                                   api.method, api.route)>>]
             ELSE CheckUris(filtered2, arn_key, lambda_key, api, 1,
                            [valid |-> TRUE, log |-> <<>>])

\* cross_validation.rs:17-21, the routes of one lambda from route j on
RECURSIVE ForwardApis(_, _, _, _)
ForwardApis(data, lambda_item, j, acc) ==
  IF j > Len(lambda_item.apis) THEN acc
  ELSE LET r == validate_lambda_against_open_api(
                  data, Unwrap(lambda_item.arn_template_key), lambda_item.key,
                  lambda_item.apis[j])
       IN ForwardApis(data, lambda_item, j + 1,
                      [valid |-> IF r.valid THEN acc.valid ELSE FALSE,
                       log |-> acc.log \o r.log])

\* cross_validation.rs:15-23, the lambdas from index i on
RECURSIVE ForwardLambdas(_, _, _, _)
ForwardLambdas(lambdas, data, i, acc) ==
  IF i > Len(lambdas) THEN acc
  ELSE ForwardLambdas(lambdas, data, i + 1,
         IF IsSome(lambdas[i].arn_template_key)
         THEN ForwardApis(data, lambdas[i], 1, acc)
         ELSE acc)

\* cross_validation.rs:24
RECURSIVE FlatApis(_, _)
FlatApis(lambdas, i) ==
  IF i > Len(lambdas) THEN <<>>
  ELSE lambdas[i].apis \o FlatApis(lambdas, i + 1)

\* cross_validation.rs:29-35
FilteredLambdas(lambda_apis, open_api_item) ==
  LET hit == SelectSeq(lambda_apis, LAMBDA api : api.route = open_api_item.path)
  IN [k \in 1..Len(hit) |-> hit[k].method]

SeqContains(s, v) == \E k \in 1..Len(s) : s[k] = v

\* ReverseItem where the SQS and StepFunction arms clear `valid` too
ReverseItem_WarnInvalid(lambda_apis, open_api_item, acc) ==
  IF open_api_item.execution_type = "Lambda"
  THEN LET filtered_lambdas == FilteredLambdas(lambda_apis, open_api_item)
       IN IF Len(filtered_lambdas) = 0
             \/ (/\ ~SeqContains(filtered_lambdas, open_api_item.method)
                 /\ ~SeqContains(filtered_lambdas, "ANY"))
          THEN [valid |-> FALSE,
                log |-> Append(acc.log,
                          Entry("error",
                                IF Len(filtered_lambdas) = 0
                                THEN "path_not_in_terraform"
                                ELSE "method_not_in_terraform", "",
                                open_api_item.method, open_api_item.path))]
          ELSE acc
  ELSE [valid |-> FALSE,
        log |-> Append(acc.log,
                  Entry("warn",
                        IF open_api_item.execution_type = "SQS"
                        THEN "sqs_not_handled" ELSE "step_function_not_handled",
                        "", open_api_item.method, open_api_item.path))]

\* ReverseItem without the HttpMethod::Any test of line 44
ReverseItem_NoAny(lambda_apis, open_api_item, acc) ==
  IF open_api_item.execution_type = "Lambda"
  THEN LET filtered_lambdas == FilteredLambdas(lambda_apis, open_api_item)
       IN IF Len(filtered_lambdas) = 0
          THEN [valid |-> FALSE,
                log |-> Append(acc.log,
                          Entry("error", "path_not_in_terraform", "",
                                open_api_item.method, open_api_item.path))]
          ELSE IF ~SeqContains(filtered_lambdas, open_api_item.method)
               THEN [valid |-> FALSE,
                     log |-> Append(acc.log,
                               Entry("error", "method_not_in_terraform", "",
                                     open_api_item.method, open_api_item.path))]
               ELSE acc
  ELSE [valid |-> acc.valid,
        log |-> Append(acc.log,
                  Entry("warn",
                        IF open_api_item.execution_type = "SQS"
                        THEN "sqs_not_handled" ELSE "step_function_not_handled",
                        "", open_api_item.method, open_api_item.path))]

\* cross_validation.rs:27-54, the closure of for_each for one endpoint
ReverseItem(lambda_apis, open_api_item, acc) ==
  IF open_api_item.execution_type = "Lambda"
  THEN LET filtered_lambdas == FilteredLambdas(lambda_apis, open_api_item)
       IN IF Len(filtered_lambdas) = 0
          THEN [valid |-> FALSE,
                log |-> Append(acc.log,
                          Entry("error", "path_not_in_terraform", "",
                                open_api_item.method, open_api_item.path))]
          ELSE IF /\ ~SeqContains(filtered_lambdas, open_api_item.method)
                  /\ ~SeqContains(filtered_lambdas, "ANY")
               THEN [valid |-> FALSE,
                     log |-> Append(acc.log,
                               Entry("error", "method_not_in_terraform", "",
                                     open_api_item.method, open_api_item.path))]
               ELSE acc
  ELSE IF open_api_item.execution_type = "SQS"
       THEN [valid |-> acc.valid,
             log |-> Append(acc.log,
                       Entry("warn", "sqs_not_handled", "",
                             open_api_item.method, open_api_item.path))]
       ELSE [valid |-> acc.valid,
             log |-> Append(acc.log,
                       Entry("warn", "step_function_not_handled", "",
                             open_api_item.method, open_api_item.path))]

\* ReverseItems that stops at the first endpoint once `valid` is false
RECURSIVE ReverseItems_StopOnError(_, _, _, _)
ReverseItems_StopOnError(lambda_apis, data, i, acc) ==
  IF i > Len(data) \/ ~acc.valid THEN acc
  ELSE ReverseItems_StopOnError(lambda_apis, data, i + 1,
                                ReverseItem(lambda_apis, data[i], acc))

\* cross_validation.rs:25-55, the endpoints from index i on
RECURSIVE ReverseItems(_, _, _, _)
ReverseItems(lambda_apis, data, i, acc) ==
  IF i > Len(data) THEN acc
  ELSE ReverseItems(lambda_apis, data, i + 1,
                    ReverseItem(lambda_apis, data[i], acc))

\* open_api.rs:293-300: every uri of open_api_data is read out of the text of
\* the OpenAPI document, so the text holds each of them (here one per line)
RECURSIVE SpecText(_, _)
SpecText(data, i) ==
  IF i > Len(data) THEN <<>>
  ELSE data[i].uri \o <<"\n">> \o SpecText(data, i + 1)

(* Rust str operations used by terraform.rs, on sequences of characters     *)

Quote == "\""
WhiteSpace == {" ", "\n", "\t"}

UpperChars ==
  <<"A", "B", "C", "D", "E", "F", "G", "H", "I", "J", "K", "L", "M",
    "N", "O", "P", "Q", "R", "S", "T", "U", "V", "W", "X", "Y", "Z">>
LowerChars ==
  <<"a", "b", "c", "d", "e", "f", "g", "h", "i", "j", "k", "l", "m",
    "n", "o", "p", "q", "r", "s", "t", "u", "v", "w", "x", "y", "z">>

MapChar(from, to, c) ==
  IF \E k \in 1..Len(from) : from[k] = c
  THEN to[CHOOSE k \in 1..Len(from) : from[k] = c]
  ELSE c

\* str::to_lowercase, str::to_uppercase
to_lowercase(s) == [i \in 1..Len(s) |-> MapChar(UpperChars, LowerChars, s[i])]
to_uppercase(s) == [i \in 1..Len(s) |-> MapChar(LowerChars, UpperChars, s[i])]

\* str::find: the first position where t occurs in s, 0 for None
find(s, t) ==
  LET hits == {i \in 1..(Len(s) - Len(t) + 1) : MatchAt(s, t, i)}
  IN IF hits = {} THEN 0 ELSE CHOOSE i \in hits : \A h \in hits : i <= h

\* str::split(pattern): the pieces between the occurrences of t, left to right
RECURSIVE split(_, _)
split(s, t) ==
  LET j == find(s, t)
  IN IF j = 0 THEN <<s>>
     ELSE <<SubSeq(s, 1, j - 1)>> \o split(SubSeq(s, j + Len(t), Len(s)), t)

\* str::matches(pattern).count()
matches_count(s, t) == Len(split(s, t)) - 1

\* str::replacen(pattern, to, count)
RECURSIVE replacen(_, _, _, _)
replacen(s, t, r, n) ==
  LET j == find(s, t)
  IN IF n = 0 \/ j = 0 THEN s
     ELSE SubSeq(s, 1, j - 1) \o r
            \o replacen(SubSeq(s, j + Len(t), Len(s)), t, r, n - 1)

\* str::replace(pattern, to)
replace(s, t, r) == replacen(s, t, r, Len(s))

\* str::trim
RECURSIVE trim_start(_)
trim_start(s) ==
  IF s # <<>> /\ s[1] \in WhiteSpace THEN trim_start(Tail(s)) ELSE s
RECURSIVE trim_end(_)
trim_end(s) ==
  IF s # <<>> /\ s[Len(s)] \in WhiteSpace
  THEN trim_end(SubSeq(s, 1, Len(s) - 1)) ELSE s
trim(s) == trim_end(trim_start(s))

----------------------------------------------------------------------------
(* util.rs: HttpMethod                                                      *)

\* util.rs:54-68, impl Display for HttpMethod
HttpMethodToString(m) ==
  CASE m = "GET" -> <<"G", "E", "T">>
    [] m = "POST" -> <<"P", "O", "S", "T">>
    [] m = "PUT" -> <<"P", "U", "T">>
    [] m = "DELETE" -> <<"D", "E", "L", "E", "T", "E">>
    [] m = "PATCH" -> <<"P", "A", "T", "C", "H">>
    [] m = "HEAD" -> <<"H", "E", "A", "D">>
    [] m = "OPTIONS" -> <<"O", "P", "T", "I", "O", "N", "S">>
    [] m = "TRACE" -> <<"T", "R", "A", "C", "E">>
    [] m = "CONNECT" -> <<"C", "O", "N", "N", "E", "C", "T">>

\* terraform.rs:453 writes HttpMethod::Any.to_string(); util.rs has no such
\* variant and no text for it, the token is the "any method" token
AnyToken == <<"A", "N", "Y">>

\* the match of From<&str> reaches panic!("Invalid HTTP method")
InvalidHttpMethod == "panic"

\* util.rs:37-52, impl From<&str> for HttpMethod
HttpMethodFrom(s) ==
  LET l == to_lowercase(s)
  IN CASE l = <<"g", "e", "t">> -> "GET"
       [] l = <<"p", "o", "s", "t">> -> "POST"
       [] l = <<"p", "u", "t">> -> "PUT"
       [] l = <<"d", "e", "l", "e", "t", "e">> -> "DELETE"
       [] l = <<"p", "a", "t", "c", "h">> -> "PATCH"
       [] l = <<"h", "e", "a", "d">> -> "HEAD"
       [] l = <<"o", "p", "t", "i", "o", "n", "s">> -> "OPTIONS"
       [] l = <<"t", "r", "a", "c", "e">> -> "TRACE"
       [] l = <<"c", "o", "n", "n", "e", "c", "t">> -> "CONNECT"
       [] OTHER -> InvalidHttpMethod

----------------------------------------------------------------------------
(* terraform.rs: the route of a lambda permission                           *)

\* anyhow::Result<Vec<String>>; a panic of the thread is a third outcome
OkData(d) == [status |-> "Ok", data |-> d]
ErrData == [status |-> "Err", data |-> <<>>]
PanicData == [status |-> "panic", data |-> <<>>]

Slash == <<"/">>
Star == <<"*">>
Space == <<" ">>
ThreeWildcards == <<"/", "*", "/", "*", "/", "*">>
TwoWildcards == <<"/", "*", "/", "*">>

\* terraform.rs:414-426
extract_api_and_method(line, method) ==
  IF Contains(line, to_uppercase(HttpMethodToString(method)))
  THEN Some(<<HttpMethodToString(method),
              replace(line, Slash \o to_uppercase(HttpMethodToString(method)),
                      <<>>)>>)
  ELSE NoneOpt

SingleWildcard_ReplaceAll(section) ==
  LET parts1 == split(section, Star)
      section1 == replace(parts1[2], Slash, Space)
      data1 == split(trim(section1), Space)
  IN IF Len(data1) < 2 THEN PanicData
     ELSE OkData([data1 EXCEPT ![2] = Slash \o trim(data1[2])])

\* terraform.rs:438-446: data[1] of a one-element vector is out of bounds
SingleWildcard(section) ==
  LET parts1 == split(section, Star)
      section1 == replacen(parts1[2], Slash, Space, 2)
      data1 == split(trim(section1), Space)
  IN IF Len(data1) < 2 THEN PanicData
     ELSE OkData([data1 EXCEPT ![2] = Slash \o trim(data1[2])])

\* terraform.rs:447-456
DoubleWildcard(section) ==
  LET parts2 == split(section, TwoWildcards)
      section2 == replacen(parts2[2], Slash, <<>>, 1)
      data2 == <<AnyToken>> \o split(trim(section2), Space)
  IN OkData([data2 EXCEPT ![2] = Slash \o trim(data2[2])])

ScanOrder == <<"GET", "POST", "PUT", "DELETE", "PATCH">>

\* terraform.rs:457-469: parts[1] of a one-element vector is out of bounds,
\* and the last branch is todo!()
MethodScan(parts) ==
  IF Len(parts) < 2 THEN PanicData
  ELSE LET line == trim(parts[2])
           hits == {k \in 1..Len(ScanOrder) :
                      IsSome(extract_api_and_method(line, ScanOrder[k]))}
       IN IF hits = {} THEN PanicData
          ELSE LET first == CHOOSE k \in hits : \A h \in hits : k <= h
               IN OkData(Unwrap(extract_api_and_method(line, ScanOrder[first])))

handle_api_gateway_lambda_TrailingSlash(arn) ==
  LET section == replace(arn, <<Quote>>, <<>>)
      parts == split(section, <<"}">>)
  IN IF Contains(section, ThreeWildcards \o Slash)
     THEN ErrData
     ELSE IF Contains(section, Star) /\ matches_count(section, Star) = 1
     THEN SingleWildcard(section)
     ELSE IF /\ Contains(section, Star)
             /\ matches_count(section, Star) = 2
             /\ Contains(section, TwoWildcards)
     THEN DoubleWildcard(section)
     ELSE MethodScan(parts)

\* terraform.rs:429-470
handle_api_gateway_lambda(arn) ==
  LET section == replace(arn, <<Quote>>, <<>>)
      parts == split(section, <<"}">>)
  IN IF Contains(section, ThreeWildcards)
     THEN ErrData
     ELSE IF Contains(section, Star) /\ matches_count(section, Star) = 1
     THEN SingleWildcard(section)
     ELSE IF /\ Contains(section, Star)
             /\ matches_count(section, Star) = 2
             /\ Contains(section, TwoWildcards)
     THEN DoubleWildcard(section)
     ELSE MethodScan(parts)

\* terraform.rs:322-325: APIPath { method: data[0].trim().into(),
\* route: data[1].trim().into() }
APIPathFrom(data) ==
  LET m == HttpMethodFrom(trim(data[1]))
  IN IF m = InvalidHttpMethod
     THEN [status |-> "panic", method |-> "none", route |-> <<>>]
     ELSE [status |-> "Ok", method |-> m, route |-> trim(data[2])]

NoRoute == [status |-> "none", method |-> "none", route |-> <<>>]

ArnIdle ==
  /\ source_arn = <<>>
  /\ arn_pc = "idle"
  /\ arn_data = OkData(<<>>)
  /\ arn_api = NoRoute

----------------------------------------------------------------------------
(* terraform.rs: validate_lambda, the lambda registry of lambda.tf          *)

\* the text of lambda.tf around the declarations of the lambdas
RegistryHeader ==
  <<"l", "o", "c", "a", "l", "s", " ", "{", "\n", " ", "l", "a", "m", "b",
    "d", "a", "s", " ", "=", " ", "{", "\n">>
EntryOpen ==
  <<" ", "=", " ", "{", " ", "h", "a", "n", "d", "l", "e", "r", " ", "=",
    " ", Quote>>
EntryClose ==
  <<Quote, " ", "}", "\n">>
RegistryFooter ==
  <<" ", "}", "\n", "}", "\n">>

\* one declaration: key = { handler = "..." }
RenderEntry(e) == <<" ">> \o e.key \o EntryOpen \o e.handler \o EntryClose

RECURSIVE RenderEntries(_, _)
RenderEntries(tree, i) ==
  IF i > Len(tree) THEN <<>>
  ELSE RenderEntry(tree[i]) \o RenderEntries(tree, i + 1)

\* the file that hcl::parse reads as the declarations of tree, followed by
\* the rest of the file
RenderRegistry(tree, rest) ==
  RegistryHeader \o RenderEntries(tree, 1) \o RegistryFooter \o rest

\* terraform.rs:15-43, 195-199: Lambda { key, handler, ..Default::default() };
\* the #[default] of LambdaTriggerType is ApiGateway
DefaultLambda(key, handler) ==
  [key |-> key, handler |-> handler, step_function |-> FALSE, apis |-> <<>>,
   arn_template_key |-> NoneOpt, lambda_type |-> "ApiGateway"]

\* terraform.rs:172-202: one Lambda per key of the parsed object
RECURSIVE BuildMetadata(_, _)
BuildMetadata(tree, i) ==
  IF i > Len(tree) THEN <<>>
  ELSE <<DefaultLambda(tree[i].key,
                        replace(tree[i].handler, <<Quote>>, <<>>))>>
         \o BuildMetadata(tree, i + 1)

LambdasWord == <<"l", "a", "m", "b", "d", "a", "s">>
ClosingBrace == <<"\n", "}">>

\* terraform.rs:211-217: None when an expect or a split_at panics.  start and
\* end are byte offsets (find - 1); end is an offset of the whole file that
\* is used on the text from start on
CutLocals(contents) ==
  LET start == find(contents, LambdasWord) - 1
      end_str == SubSeq(contents, start + 1, Len(contents))
      end == find(contents, ClosingBrace) - 1
  IN IF start < 0 \/ end < 0 \/ end > Len(end_str) THEN NoneOpt
     ELSE Some(SubSeq(end_str, 1, end))

KeyError(key) ==
  [msg |-> "key_duplicated", key |-> key, other |-> <<>>, handler |-> <<>>]
HandlerError(key, other, handler) ==
  [msg |-> "same_handler", key |-> key, other |-> other, handler |-> handler]

\* terraform.rs:223-226
CheckKey(meta, locals, acc) ==
  IF matches_count(locals, meta.key) > 1
  THEN [valid |-> FALSE, log |-> Append(acc.log, KeyError(meta.key))]
  ELSE acc

RECURSIVE CheckHandlers_SkipLast(_, _, _, _)
CheckHandlers_SkipLast(metadata, index, j, acc) ==
  IF ~(j < Len(metadata)) THEN acc
  ELSE CheckHandlers_SkipLast(metadata, index, j + 1,
         IF metadata[index].handler = metadata[j].handler
         THEN [valid |-> FALSE,
               log |-> Append(acc.log,
                        HandlerError(metadata[index].key, metadata[j].key,
                                     metadata[j].handler))]
         ELSE acc)

\* terraform.rs:227-240: while j < lambda_metadata.len(), here from 1
RECURSIVE CheckHandlers(_, _, _, _)
CheckHandlers(metadata, index, j, acc) ==
  IF ~(j <= Len(metadata)) THEN acc
  ELSE CheckHandlers(metadata, index, j + 1,
         IF metadata[index].handler = metadata[j].handler
         THEN [valid |-> FALSE,
               log |-> Append(acc.log,
                        HandlerError(metadata[index].key, metadata[j].key,
                                     metadata[j].handler))]
         ELSE acc)

\* terraform.rs:218-242: while index < lambda_metadata.len() - 1, here from 1
RECURSIVE CheckMetadata(_, _, _, _)
CheckMetadata(metadata, locals, index, acc) ==
  IF ~(index < Len(metadata)) THEN acc
  ELSE CheckMetadata(metadata, locals, index + 1,
         CheckHandlers(metadata, index, index + 1,
                       CheckKey(metadata[index], locals, acc)))

----------------------------------------------------------------------------
(* terraform.rs: validate_lambda as one call                                *)

\* anyhow::Result<Vec<Lambda>> of a stage, with the error! lines it wrote
StageOk(data, log) == [status |-> "Ok", data |-> data, log |-> log]
StageErr(log) == [status |-> "Err", data |-> <<>>, log |-> log]
StagePanic(log) == [status |-> "panic", data |-> <<>>, log |-> log]

\* terraform.rs:153-248
validate_lambda(tree, contents) ==
  LET metadata == BuildMetadata(tree, 1)
      locals == CutLocals(contents)
  IN IF metadata = <<>> THEN StageOk(metadata, <<>>)
     ELSE IF locals = NoneOpt THEN StagePanic(<<>>)
     ELSE LET r == CheckMetadata(metadata, Unwrap(locals), 1,
                                 [valid |-> TRUE, log |-> <<>>])
          IN IF ~r.valid THEN StageErr(r.log) ELSE StageOk(metadata, r.log)

----------------------------------------------------------------------------
(* terraform.rs: validate_lambda_permissions                                *)

ApiGatewayService ==
  <<"a", "p", "i", "g", "a", "t", "e", "w", "a", "y", ".", "a", "m", "a",
    "z", "o", "n", "a", "w", "s", ".", "c", "o", "m">>
EventsService ==
  <<"e", "v", "e", "n", "t", "s", ".", "a", "m", "a", "z", "o", "n", "a",
    "w", "s", ".", "c", "o", "m">>
SchedulerService ==
  <<"s", "c", "h", "e", "d", "u", "l", "e", "r", ".", "a", "m", "a", "z",
    "o", "n", "a", "w", "s", ".", "c", "o", "m">>

PermissionsHeader ==
  <<"l", "o", "c", "a", "l", "s", " ", "{", "\n", " ", "l", "a", "m", "b",
    "d", "a", "s", "_", "p", "e", "r", "m", "i", "s", "s", "i", "o", "n",
    "s", " ", "=", " ", "{", "\n">>
GroupOpen ==
  <<" ", "=", " ", "[", "\n">>
GroupClose ==
  <<" ", "]", "\n">>
PrincipalOpen ==
  <<" ", " ", "{", " ", "p", "r", "i", "n", "c", "i", "p", "a", "l", " ",
    "=", " ", Quote>>
SourceArnOpen ==
  <<Quote, " ", "s", "o", "u", "r", "c", "e", "_", "a", "r", "n", " ", "=",
    " ">>
PermissionClose ==
  <<" ", "}", "\n">>

\* one permission: { principal = "..." source_arn = "..." }; source_arn is
\* the text of the expression, with its quotes
RenderPermission(e) ==
  PrincipalOpen \o e.principal \o SourceArnOpen \o e.source_arn
    \o PermissionClose

RECURSIVE RenderPermissions(_, _)
RenderPermissions(entries, i) ==
  IF i > Len(entries) THEN <<>>
  ELSE RenderPermission(entries[i]) \o RenderPermissions(entries, i + 1)

RECURSIVE RenderGroups(_, _)
RenderGroups(tree, i) ==
  IF i > Len(tree) THEN <<>>
  ELSE <<" ">> \o tree[i].key \o GroupOpen
         \o RenderPermissions(tree[i].entries, 1) \o GroupClose
         \o RenderGroups(tree, i + 1)

\* the file that hcl::parse reads as the permission groups of tree, after the
\* lines of note
RenderPermissionFile(tree, note) ==
  note \o PermissionsHeader \o RenderGroups(tree, 1) \o RegistryFooter

\* Iterator::position of the lambda with this key, 0 for None
LambdaIndex(metadata, key) ==
  IF \E i \in 1..Len(metadata) : metadata[i].key = key
  THEN CHOOSE i \in 1..Len(metadata) :
         /\ metadata[i].key = key
         /\ \A k \in 1..(i - 1) : metadata[k].key # key
  ELSE 0

\* terraform.rs:300-312: None is the todo!() of the last arm
TriggerOf(service) ==
  IF service = ApiGatewayService THEN Some("ApiGateway")
  ELSE IF service = EventsService THEN Some("EventBridge")
  ELSE IF service = SchedulerService THEN Some("EventBridge")
  ELSE NoneOpt

\* terraform.rs:284-325: one permission of the group of key
PermissionStep(acc, key, e) ==
  LET i == LambdaIndex(acc.data, key)
      trigger == TriggerOf(replace(e.principal, <<Quote>>, <<>>))
  IN IF i = 0 \/ trigger = NoneOpt THEN StagePanic(acc.log)
     ELSE LET typed == [acc.data EXCEPT ![i].lambda_type = Unwrap(trigger)]
          IN IF Unwrap(trigger) # "ApiGateway"
             THEN StageOk(typed, acc.log)
             ELSE LET r == handle_api_gateway_lambda(e.source_arn)
                  IN IF r.status = "Err" THEN StageErr(acc.log)
                     ELSE IF r.status = "panic" THEN StagePanic(acc.log)
                     ELSE LET api == APIPathFrom(r.data)
                          IN IF api.status = "panic" THEN StagePanic(acc.log)
                             ELSE StageOk(
                                    [typed EXCEPT ![i].apis =
                                       Append(@, [method |-> api.method,
                                                  route |-> api.route])],
                                    acc.log)

\* terraform.rs:279-334: every permission of every group, in order; the `?`
\* and the panics stop the loops
RECURSIVE PermissionLoop(_, _, _, _)
PermissionLoop(tree, g, k, acc) ==
  IF acc.status # "Ok" \/ g > Len(tree) THEN acc
  ELSE IF k > Len(tree[g].entries) THEN PermissionLoop(tree, g + 1, 1, acc)
  ELSE PermissionLoop(tree, g, k + 1,
                      PermissionStep(acc, tree[g].key, tree[g].entries[k]))

ExtraKeyError(key) ==
  [msg |-> "extra_key", key |-> key, other |-> <<>>, handler |-> <<>>]

\* terraform.rs:336-352: one key of lambda_permission_keys; valid is part of
\* acc, the expect of 344-345 panics
PermissionKeyStep(acc, contents, key) ==
  LET i == LambdaIndex(acc.data, key)
      extra == IF i = 0
               THEN [acc EXCEPT !.valid = FALSE,
                                !.log = Append(@, ExtraKeyError(key))]
               ELSE acc
      len == matches_count(contents, key)
  IN IF len > 1
     THEN IF i = 0 THEN [extra EXCEPT !.status = "panic"]
          ELSE IF Len(acc.data[i].apis) # len
          THEN [extra EXCEPT !.valid = FALSE,
                             !.log = Append(@, KeyError(key))]
          ELSE extra
     ELSE extra

RECURSIVE PermissionKeyLoop(_, _, _, _)
PermissionKeyLoop(tree, contents, g, acc) ==
  IF acc.status # "Ok" \/ g > Len(tree) THEN acc
  ELSE PermissionKeyLoop(tree, contents, g + 1,
                         PermissionKeyStep(acc, contents, tree[g].key))

\* terraform.rs:251-361
validate_lambda_permissions(tree, contents, metadata) ==
  LET a == PermissionLoop(tree, 1, 1, StageOk(metadata, <<>>))
  IN IF a.status # "Ok" THEN a
     ELSE LET b == PermissionKeyLoop(tree, contents, 1,
                     [status |-> "Ok", data |-> a.data, log |-> a.log,
                      valid |-> TRUE])
          IN IF b.status # "Ok" THEN StagePanic(b.log)
             ELSE IF ~b.valid THEN StageErr(b.log)
             ELSE StageOk(b.data, b.log)

----------------------------------------------------------------------------
(* terraform.rs: extract_api_gw, extract_step_function, the last checks of  *)
(* validate_terraform                                                       *)

starts_with(s, t) == MatchAt(s, t, 1)

UsedTwiceError(key) ==
  [msg |-> "used_more_than_once", key |-> key, other |-> <<>>,
   handler |-> <<>>]

\* terraform.rs:374: the line names the lambda and is not a comment
GatewayLineOf(line, key) ==
  /\ Contains(line, key)
  /\ ~starts_with(trim(line), <<"#">>)
  /\ ~starts_with(trim(line), <<"/", "/">>)

\* terraform.rs:373-385: one line; the break leaves the loop over the
\* lambdas at the first lambda the line names
GatewayLine(acc, line) ==
  LET hits == {i \in 1..Len(acc.data) : GatewayLineOf(line, acc.data[i].key)}
  IN IF hits = {} THEN acc
     ELSE LET i == CHOOSE h \in hits : \A o \in hits : h <= o
              parts == split(line, <<":">>)
              seen == IsSome(acc.data[i].arn_template_key)
          IN [status |-> "Ok",
              valid |-> acc.valid /\ ~seen,
              log |-> IF seen
                      THEN Append(acc.log, UsedTwiceError(acc.data[i].key))
                      ELSE acc.log,
              data |-> [acc.data EXCEPT
                          ![i].arn_template_key = Some(trim(parts[1]))]]

RECURSIVE GatewayLines(_, _, _)
GatewayLines(lines, n, acc) ==
  IF n > Len(lines) THEN acc
  ELSE GatewayLines(lines, n + 1, GatewayLine(acc, lines[n]))

extract_api_gw_IgnoreValid(lines, lambda) ==
  LET r == GatewayLines(lines, 1,
             [status |-> "Ok", valid |-> TRUE, log |-> <<>>, data |-> lambda])
  IN StageOk(r.data, r.log)

\* terraform.rs:364-390
extract_api_gw(lines, lambda) ==
  LET r == GatewayLines(lines, 1,
             [status |-> "Ok", valid |-> TRUE, log |-> <<>>, data |-> lambda])
  IN IF ~r.valid THEN StageErr(r.log) ELSE StageOk(r.data, r.log)

ModuleLambda ==
  <<"m", "o", "d", "u", "l", "e", ".", "l", "a", "m", "b", "d", "a", "[",
    Quote>>

\* terraform.rs:403-409: every lambda that some line refers to
extract_step_function(lambdas, lines) ==
  StageOk(
    [i \in 1..Len(lambdas) |->
       IF \E n \in 1..Len(lines) :
            Contains(lines[n], ModuleLambda \o lambdas[i].key)
       THEN [lambdas[i] EXCEPT !.step_function = TRUE]
       ELSE lambdas[i]],
    <<>>)

NotInGatewayError(key) ==
  [msg |-> "not_used_in_api_gateway", key |-> key, other |-> <<>>,
   handler |-> <<>>]
NoPermissionError(key) ==
  [msg |-> "in_api_gateway_without_permission", key |-> key, other |-> <<>>,
   handler |-> <<>>]
UnusedError(key) ==
  [msg |-> "not_used_anywhere", key |-> key, other |-> <<>>, handler |-> <<>>]

\* terraform.rs:85-104 (with step_function.tf) and 112-117 (without): the
\* error! lines of one lambda
CoherenceLines(item, with_step_fn) ==
  (IF item.arn_template_key = NoneOpt /\ item.apis # <<>>
   THEN <<NotInGatewayError(item.key)>> ELSE <<>>)
  \o (IF with_step_fn /\ IsSome(item.arn_template_key) /\ item.apis = <<>>
      THEN <<NoPermissionError(item.key)>> ELSE <<>>)
  \o (IF /\ with_step_fn
         /\ ~item.step_function
         /\ item.arn_template_key = NoneOpt
         /\ item.apis = <<>>
      THEN <<UnusedError(item.key)>> ELSE <<>>)

RECURSIVE CoherenceLog(_, _, _)
CoherenceLog(lambdas, i, with_step_fn) ==
  IF i > Len(lambdas) THEN <<>>
  ELSE CoherenceLines(lambdas[i], with_step_fn)
         \o CoherenceLog(lambdas, i + 1, with_step_fn)

\* terraform.rs:82-125: valid is false when some lambda has routes and no
\* placeholder
Coherence(lambdas, with_step_fn) ==
  LET log == CoherenceLog(lambdas, 1, with_step_fn)
  IN IF \E i \in 1..Len(lambdas) :
          lambdas[i].arn_template_key = NoneOpt
            /\ lambdas[i].apis # <<>>
     THEN StageErr(log)
     ELSE StageOk(lambdas, log)

TfIdle ==
  /\ tf_in = <<>>
  /\ tf_pc = "idle"
  /\ tf_lambdas = <<>>
  /\ tf_log = <<>>
  /\ tf_stages = <<>>
  /\ tf_result = [status |-> "none", value |-> NoneOpt]

RegIdle ==
  /\ reg_tree = <<>>
  /\ lambda_contents = <<>>
  /\ lambda_metadata = <<>>
  /\ reg_pc = "idle"
  /\ reg_locals = NoneOpt
  /\ reg_valid = TRUE
  /\ reg_log = <<>>
  /\ reg_result = "none"

----------------------------------------------------------------------------
(* open_api.rs: extract_api_data, the endpoints of the OpenAPI document     *)

StatesMarker ==
  <<"s", "t", "a", "t", "e", "s", ":", "a", "c", "t", "i", "o", "n">>
LambdaMarker ==
  <<"l", "a", "m", "b", "d", "a", ":", "p", "a", "t", "h">>
SqsMarker ==
  <<"s", "q", "s", ":", "a", "c", "t", "i", "o", "n">>

\* open_api.rs:313-323: the first marker of this order that the uri holds
ApiTypeOf_LambdaFirst(uri) ==
  IF Contains(uri, LambdaMarker) THEN "Lambda"
  ELSE IF Contains(uri, StatesMarker) THEN "StepFunction"
  ELSE IF Contains(uri, SqsMarker) THEN "SQS"
  ELSE "unknown"

ApiTypeOf(uri) ==
  IF Contains(uri, StatesMarker) THEN "StepFunction"
  ELSE IF Contains(uri, LambdaMarker) THEN "Lambda"
  ELSE IF Contains(uri, SqsMarker) THEN "SQS"
  ELSE "unknown"

NoBodyWarning(method, path) ==
  [msg |-> "no_request_body_or_parameters", method |-> method, path |-> path]
OptionsWarning(path) ==
  [msg |-> "double_check_options", method |-> "OPTIONS", path |-> path]
MethodNotUsed(method) ==
  [msg |-> "http_method_should_not_be_used", method |-> method, uri |-> <<>>]
UnknownExecutionType(uri) ==
  [msg |-> "unknown_execution_type", method |-> "none", uri |-> uri]
NoError == [msg |-> "none", method |-> "none", uri |-> <<>>]

MethodCheck_NoBodyFails(item, path, method) ==
  IF method \in {"GET", "DELETE"} THEN [log |-> <<>>, err |-> NoneOpt]
  ELSE IF method \in {"POST", "PUT", "PATCH"}
  THEN [log |-> <<>>,
        err |-> IF ~item.request_body /\ ~item.parameters
                THEN Some([msg |-> "no_request_body_or_parameters",
                           method |-> method, uri |-> <<>>])
                ELSE NoneOpt]
  ELSE IF method = "OPTIONS"
  THEN [log |-> <<OptionsWarning(path)>>, err |-> NoneOpt]
  ELSE [log |-> <<>>, err |-> Some(MethodNotUsed(method))]

\* open_api.rs:302-312: the warnings of the method, Some(error) for a method
\* that has no arm
MethodCheck(item, path, method) ==
  IF method \in {"GET", "DELETE"} THEN [log |-> <<>>, err |-> NoneOpt]
  ELSE IF method \in {"POST", "PUT", "PATCH"}
  THEN [log |-> IF ~item.request_body /\ ~item.parameters
                THEN <<NoBodyWarning(method, path)>> ELSE <<>>,
        err |-> NoneOpt]
  ELSE IF method = "OPTIONS"
  THEN [log |-> <<OptionsWarning(path)>>, err |-> NoneOpt]
  ELSE [log |-> <<>>, err |-> Some(MethodNotUsed(method))]

\* open_api.rs:287-331: anyhow::Result<OpenAPIData>, the warn! lines written
\* before it returns; the expects of 293-300 panic
extract_api_data_for_item(item, path, method) ==
  IF item.uri = NoneOpt
  THEN [status |-> "panic", data |-> <<>>, log |-> <<>>, err |-> NoError]
  ELSE LET uri_path == Unwrap(item.uri)
           mc == MethodCheck(item, path, method)
       IN IF IsSome(mc.err)
          THEN [status |-> "Err", data |-> <<>>, log |-> mc.log,
                err |-> Unwrap(mc.err)]
          ELSE IF ApiTypeOf(uri_path) = "unknown"
          THEN [status |-> "Err", data |-> <<>>, log |-> mc.log,
                err |-> UnknownExecutionType(uri_path)]
          ELSE [status |-> "Ok",
                data |-> <<[path |-> path, method |-> method,
                            uri |-> uri_path,
                            execution_type |-> ApiTypeOf(uri_path)]>>,
                log |-> mc.log, err |-> NoError]

\* open_api.rs:339-357: the operations extract_api_data looks at, in order
ExtractOrder == <<"GET", "POST", "PUT", "PATCH", "DELETE">>

\* open_api.rs:337-358: one path item; `?` stops at the first Err
RECURSIVE ExtractPathItem(_, _, _)
ExtractPathItem(path_item, k, acc) ==
  IF k > Len(ExtractOrder) \/ acc.status # "Ok" THEN acc
  ELSE IF ExtractOrder[k] \notin DOMAIN path_item.ops
  THEN ExtractPathItem(path_item, k + 1, acc)
  ELSE LET r == extract_api_data_for_item(path_item.ops[ExtractOrder[k]],
                                          path_item.path, ExtractOrder[k])
       IN ExtractPathItem(path_item, k + 1,
            [status |-> r.status, data |-> acc.data \o r.data,
             log |-> acc.log \o r.log, err |-> r.err])

OaIdle ==
  /\ oa_doc = <<>>
  /\ oa_pc = "idle"
  /\ oa_i = 1
  /\ oa_data = <<>>
  /\ oa_log = <<>>
  /\ oa_err = NoError
  /\ oa_result = [status |-> "none", value |-> NoneOpt]

----------------------------------------------------------------------------
(* validate_aws_api_gateway_integration (cross_validation.rs:105-139): the  *)
(* check of one operation of the OpenAPI document against an ARN key.       *)
(* config.extensions is None without the extension, otherwise Some of the   *)
(* extension, whose uri is None, Some of a string, or Some of a value that  *)
(* is not a string.                                                         *)

\* serde_json::Value::as_str: Some of the text of a string, None otherwise
StringValue(text) == [as_str |-> Some(text)]
IntegrationNotAString == [as_str |-> NoneOpt]

\* the text the function looks for to tell a step-function uri
StateMarker ==
  <<"s", "t", "a", "t", "e", ":", "a", "c", "t", "i", "o", "n">>

NoExtensionError == "extension_does_not_exist"
NoUriError == "uri_does_not_exist"
NoPlaceholderError == "uri_does_not_contain_arn_placeholder"
StepFunctionError == "uri_is_set_up_for_step_functions"

\* cross_validation.rs:116
MissingPlaceholder(uri_path, arn_key) == ~Contains(uri_path, arn_key)

SetUpForStepFunctions_BuilderMarker(uri_path) ==
  Contains(uri_path, StatesMarker)

\* cross_validation.rs:120
SetUpForStepFunctions(uri_path) == Contains(uri_path, StateMarker)

IntIdle ==
  /\ int_config = NoneOpt
  /\ int_arn_key = <<>>
  /\ int_pc = "idle"
  /\ int_valid = TRUE
  /\ int_log = <<>>
  /\ int_result = [status |-> "none", value |-> NoneOpt]

CvIdle ==
  /\ lambda_data = <<>>
  /\ open_api_data = <<>>
  /\ cv_pc = "idle"
  /\ cv_valid = TRUE
  /\ cv_log = <<>>
  /\ cv_result = "none"

FwIdle ==
  /\ fw_data = <<>>
  /\ fw_arn_key = <<>>
  /\ fw_api = [method |-> "GET", route |-> "/p"]
  /\ fw_result = <<>>

CvInit ==
  /\ lambda_data \in LambdaLists
  /\ open_api_data \in ExtractedLists
  /\ cv_pc = "forward"
  /\ cv_valid = TRUE
  /\ cv_log = <<>>
  /\ cv_result = "none"

\* cross_validation.rs:14-23
CvForward ==
  /\ cv_pc = "forward"
  /\ LET r == ForwardLambdas(lambda_data, open_api_data, 1,
                             [valid |-> cv_valid, log |-> cv_log])
     IN /\ cv_valid' = r.valid
        /\ cv_log' = r.log
  /\ cv_pc' = "reverse"
  /\ UNCHANGED <<lambda_data, open_api_data, cv_result, fw_vars, arn_vars,
                 reg_vars, oa_vars, tf_vars, int_vars>>

\* cross_validation.rs:24-55
CvReverse ==
  /\ cv_pc = "reverse"
  /\ LET r == ReverseItems(FlatApis(lambda_data, 1), open_api_data, 1,
                           [valid |-> cv_valid, log |-> cv_log])
     IN /\ cv_valid' = r.valid
        /\ cv_log' = r.log
  /\ cv_pc' = "verdict"
  /\ UNCHANGED <<lambda_data, open_api_data, cv_result, fw_vars, arn_vars,
                 reg_vars, oa_vars, tf_vars, int_vars>>

\* cross_validation.rs:56-59
CvReturn ==
  /\ cv_pc = "verdict"
  /\ cv_result' = IF ~cv_valid THEN "Err" ELSE "Ok"
  /\ cv_pc' = "done"
  /\ UNCHANGED <<lambda_data, open_api_data, cv_valid, cv_log, fw_vars,
                 arn_vars, reg_vars, oa_vars, tf_vars, int_vars>>

Init == CvInit /\ FwIdle /\ ArnIdle /\ RegIdle /\ OaIdle /\ TfIdle
  /\ IntIdle

Next == CvForward \/ CvReverse \/ CvReturn

\* cross_validation on every pair of lists within the bounds
Spec == Init /\ [][Next]_vars

----------------------------------------------------------------------------
(* validate_lambda_against_open_api as it is called by the unit tests of   *)
(* cross_validation.rs: any list of items, any placeholder, any route.     *)

FwArnKeys == {ArnA, <<"x", "y">>, <<"y", "a">>}
FwApis == [method : {"GET", "POST", "ANY"}, route : Paths]

\* uris of a Lambda item that hold the placeholder "a" and the text of a
\* step function: the one extract_api_data_for_item looks for
\* ("states:action") and the one validate_aws_api_gateway_integration looks
\* for ("state:action")
UriWithStatesAction ==
  <<"a", "/", "s", "t", "a", "t", "e", "s", ":", "a", "c", "t", "i", "o", "n">>
UriWithStateAction ==
  <<"a", "/", "l", "a", "m", "b", "d", "a", ":", "p", "a", "t", "h",
    "/", "s", "t", "a", "t", "e", ":", "a", "c", "t", "i", "o", "n">>
MarkedEndpoints ==
  {[path |-> "/p", method |-> "GET", uri |-> u, execution_type |-> "Lambda"] :
     u \in {UriWithStatesAction, UriWithStateAction}}
FwEndpoints == EndpointsAt(Paths \X {"GET", "POST"}) \cup MarkedEndpoints

FwInit ==
  /\ fw_data \in SeqUpTo(FwEndpoints, MaxEndpoints)
  /\ fw_arn_key \in FwArnKeys
  /\ fw_api \in FwApis
  /\ fw_result = <<>>

\* cross_validation.rs:62-103
FwCall ==
  /\ fw_result = <<>>
  /\ fw_result' =
       <<validate_lambda_against_open_api(fw_data, fw_arn_key, "k1", fw_api).valid>>
  /\ UNCHANGED <<fw_data, fw_arn_key, fw_api, cv_vars, arn_vars, reg_vars,
                 oa_vars, tf_vars, int_vars>>

InitForward == FwInit /\ CvIdle /\ ArnIdle /\ RegIdle /\ OaIdle /\ TfIdle
  /\ IntIdle

NextForward == FwCall

SpecForward == InitForward /\ [][NextForward]_vars

----------------------------------------------------------------------------
(* handle_api_gateway_lambda as validate_lambda_permissions calls it        *)
(* (terraform.rs:315-325) on the source_arn of one permission                *)

\* segments of a source_arn after its prefix
MaxSegs == 3

\* "${m}" stands for the interpolation that opens the test strings of
\* terraform.rs:527-623, "arn" for a prefix without one
ArnPrefixes == {<<"$", "{", "m", "}">>, <<"a", "r", "n">>}

ArnPieces ==
  {<<"/", "*">>,
   <<"/", "*", "/", "*">>,
   <<"/", "G", "E", "T">>,
   <<"/", "P", "O", "S", "T">>,
   <<"/", "P", "U", "T">>,
   <<"/", "D", "E", "L", "E", "T", "E">>,
   <<"/", "P", "A", "T", "C", "H">>,
   <<"/", "a", "p", "i">>,
   <<"/", "v", "1", "/", "{", "i", "d", "}">>}

\* nothing, a query string with a fragment, a trailing slash
ArnTails == {<<>>, <<"?", "q", "=", "{", "p", "}", "#", "t">>, <<"/">>}

RECURSIVE Concat(_)
Concat(ps) == IF ps = <<>> THEN <<>> ELSE Head(ps) \o Concat(Tail(ps))

\* the text of a source_arn expression: a quoted template string
SourceArns ==
  {<<Quote>> \o pre \o Concat(ps) \o tl \o <<Quote>> :
     pre \in ArnPrefixes, ps \in SeqUpTo(ArnPieces, MaxSegs), tl \in ArnTails}

ArnInit ==
  /\ source_arn \in SourceArns
  /\ arn_pc = "call"
  /\ arn_data = OkData(<<>>)
  /\ arn_api = NoRoute

\* terraform.rs:320: handle_api_gateway_lambda(..)?; an Err leaves
\* validate_lambda_permissions, a panic ends the run
ArnResolve ==
  /\ arn_pc = "call"
  /\ arn_data' = handle_api_gateway_lambda(source_arn)
  /\ arn_pc' = IF arn_data'.status = "Ok" THEN "push" ELSE "done"
  /\ UNCHANGED <<source_arn, arn_api, cv_vars, fw_vars, reg_vars, oa_vars,
                 tf_vars, int_vars>>

\* terraform.rs:322-325
ArnPush ==
  /\ arn_pc = "push"
  /\ arn_api' = APIPathFrom(arn_data.data)
  /\ arn_pc' = "done"
  /\ UNCHANGED <<source_arn, arn_data, cv_vars, fw_vars, reg_vars, oa_vars,
                 tf_vars, int_vars>>

InitArn == ArnInit /\ CvIdle /\ FwIdle /\ RegIdle /\ OaIdle /\ TfIdle
  /\ IntIdle

NextArn == ArnResolve \/ ArnPush

SpecArn == InitArn /\ [][NextArn]_vars

----------------------------------------------------------------------------
(* validate_lambda on the lambda.tf of every registry within the bounds     *)

\* declarations of the registry
MaxEntries == 3

RegKeys == {<<"k", "1">>, <<"k", "2">>, <<"k", "3">>, <<"d", "a">>}
RegHandlers == {<<"h", "1">>, <<"h", "2">>, <<"k", "1">>}

\* what follows the locals block in the file: nothing, or another block
RegRests ==
  {<<>>,
   <<"m", "o", "d", "u", "l", "e", " ", Quote, "m", Quote, " ", "{", "\n",
     "}", "\n">>}

\* hcl::parse gives an object: its keys are pairwise distinct
RegTrees ==
  {t \in SeqUpTo([key : RegKeys, handler : RegHandlers], MaxEntries) :
     \A i, j \in 1..Len(t) : i # j => t[i].key # t[j].key}

RegInit ==
  /\ reg_tree \in RegTrees
  /\ \E rest \in RegRests : lambda_contents = RenderRegistry(reg_tree, rest)
  /\ lambda_metadata = <<>>
  /\ reg_pc = "build"
  /\ reg_locals = NoneOpt
  /\ reg_valid = TRUE
  /\ reg_log = <<>>
  /\ reg_result = "none"

\* terraform.rs:155-208
RegBuild ==
  /\ reg_pc = "build"
  /\ lambda_metadata' = BuildMetadata(reg_tree, 1)
  /\ reg_pc' = IF lambda_metadata' # <<>> THEN "cut" ELSE "return"
  /\ UNCHANGED <<reg_tree, lambda_contents, reg_locals, reg_valid, reg_log,
                 reg_result, cv_vars, fw_vars, arn_vars, oa_vars, tf_vars,
                 int_vars>>

\* terraform.rs:209-217
RegCut ==
  /\ reg_pc = "cut"
  /\ reg_locals' = CutLocals(lambda_contents)
  /\ IF IsSome(reg_locals')
     THEN reg_pc' = "check" /\ UNCHANGED reg_result
     ELSE reg_pc' = "done" /\ reg_result' = "panic"
  /\ UNCHANGED <<reg_tree, lambda_contents, lambda_metadata, reg_valid,
                 reg_log, cv_vars, fw_vars, arn_vars, oa_vars, tf_vars,
                 int_vars>>

\* terraform.rs:218-242
RegCheck ==
  /\ reg_pc = "check"
  /\ LET r == CheckMetadata(lambda_metadata, Unwrap(reg_locals), 1,
                            [valid |-> reg_valid, log |-> reg_log])
     IN /\ reg_valid' = r.valid
        /\ reg_log' = r.log
  /\ reg_pc' = "return"
  /\ UNCHANGED <<reg_tree, lambda_contents, lambda_metadata, reg_locals,
                 reg_result, cv_vars, fw_vars, arn_vars, oa_vars, tf_vars,
                 int_vars>>

\* terraform.rs:244-247
RegReturn ==
  /\ reg_pc = "return"
  /\ reg_result' = IF ~reg_valid THEN "Err" ELSE "Ok"
  /\ reg_pc' = "done"
  /\ UNCHANGED <<reg_tree, lambda_contents, lambda_metadata, reg_locals,
                 reg_valid, reg_log, cv_vars, fw_vars, arn_vars, oa_vars,
                 tf_vars, int_vars>>

InitLambda == RegInit /\ CvIdle /\ FwIdle /\ ArnIdle /\ OaIdle /\ TfIdle
  /\ IntIdle

NextLambda == RegBuild \/ RegCut \/ RegCheck \/ RegReturn

SpecLambda == InitLambda /\ [][NextLambda]_vars

----------------------------------------------------------------------------
(* extract_api_data on every OpenAPI document within the bounds             *)

\* operations of one document
MaxOps == 2

\* the paths of a document, in the order of the document
DocPaths == <<"/p", "/q">>

\* the operations a path item of the document can declare
DocMethods == {"GET", "POST", "PUT", "PATCH", "DELETE", "HEAD", "OPTIONS"}

UriLambda ==
  <<"a", "r", "n", ":", "l", "a", "m", "b", "d", "a", ":", "p", "a", "t",
    "h", "/", "f">>
UriSqs ==
  <<"a", "r", "n", ":", "s", "q", "s", ":", "a", "c", "t", "i", "o", "n",
    "/", "Q">>
UriLambdaStates ==
  <<"a", "r", "n", ":", "l", "a", "m", "b", "d", "a", ":", "p", "a", "t",
    "h", "/", "s", "t", "a", "t", "e", "s", ":", "a", "c", "t", "i", "o",
    "n">>
UriSqsLambda ==
  <<"a", "r", "n", ":", "s", "q", "s", ":", "a", "c", "t", "i", "o", "n",
    "/", "l", "a", "m", "b", "d", "a", ":", "p", "a", "t", "h">>
UriNoMarker ==
  <<"a", "r", "n", ":", "s", "t", "a", "t", "e", ":", "a", "c", "t", "i",
    "o", "n">>

\* request_body.is_some(), !parameters.is_empty(), the uri of the
\* x-amazon-apigateway-integration extension (None: no extension or no uri)
DocOperations ==
  {[request_body |-> TRUE, parameters |-> FALSE, uri |-> Some(UriLambda)],
   [request_body |-> FALSE, parameters |-> FALSE, uri |-> Some(UriLambdaStates)],
   [request_body |-> FALSE, parameters |-> TRUE, uri |-> Some(UriSqsLambda)],
   [request_body |-> FALSE, parameters |-> FALSE, uri |-> Some(UriSqs)],
   [request_body |-> TRUE, parameters |-> FALSE, uri |-> Some(UriNoMarker)],
   [request_body |-> TRUE, parameters |-> FALSE, uri |-> NoneOpt]}

DocSlots == {<<DocPaths[i], m>> : i \in 1..Len(DocPaths), m \in DocMethods}

\* the path items of the declarations f, a function from slots to operations
PathItemOf(f, p) ==
  [path |-> p,
   ops |-> [m \in {n \in DocMethods : <<p, n>> \in DOMAIN f} |-> f[<<p, m>>]]]

DocOf(f) ==
  LET item(i) == PathItemOf(f, DocPaths[i])
      all == [i \in 1..Len(DocPaths) |-> item(i)]
  IN SelectSeq(all, LAMBDA it : DOMAIN it.ops # {})

Docs ==
  {DocOf(f) :
     f \in UNION {[S -> DocOperations] :
                    S \in {T \in SUBSET DocSlots : Cardinality(T) <= MaxOps}}}

OaInit ==
  /\ oa_doc \in Docs
  /\ oa_pc = "paths"
  /\ oa_i = 1
  /\ oa_data = <<>>
  /\ oa_log = <<>>
  /\ oa_err = NoError
  /\ oa_result = [status |-> "none", value |-> NoneOpt]

\* open_api.rs:337-358: one turn of `for (path, path_item) in paths.paths`
OaPath ==
  /\ oa_pc = "paths"
  /\ oa_i <= Len(oa_doc)
  /\ LET r == ExtractPathItem(oa_doc[oa_i], 1,
                [status |-> "Ok", data |-> oa_data, log |-> oa_log,
                 err |-> NoError])
     IN /\ oa_data' = r.data
        /\ oa_log' = r.log
        /\ oa_err' = r.err
        /\ IF r.status = "Ok"
           THEN oa_pc' = "paths" /\ oa_i' = oa_i + 1 /\ UNCHANGED oa_result
           ELSE /\ oa_pc' = "done"
                /\ oa_i' = oa_i
                /\ oa_result' = [status |-> r.status, value |-> NoneOpt]
  /\ UNCHANGED <<oa_doc, cv_vars, fw_vars, arn_vars, reg_vars, tf_vars,
                 int_vars>>

\* open_api.rs:359
OaReturn ==
  /\ oa_pc = "paths"
  /\ oa_i > Len(oa_doc)
  /\ oa_result' = [status |-> "Ok", value |-> Some(oa_data)]
  /\ oa_pc' = "done"
  /\ UNCHANGED <<oa_doc, oa_i, oa_data, oa_log, oa_err, cv_vars, fw_vars,
                 arn_vars, reg_vars, tf_vars, int_vars>>

InitOpenApi == OaInit /\ CvIdle /\ FwIdle /\ ArnIdle /\ RegIdle /\ TfIdle
  /\ IntIdle

NextOpenApi == OaPath \/ OaReturn

SpecOpenApi == InitOpenApi /\ [][NextOpenApi]_vars

----------------------------------------------------------------------------
(* validate_terraform on the four files of a terraform directory            *)

\* lines of api_gateway.tf
MaxLines == 2

K1 == <<"k", "1">>
K2 == <<"k", "2">>
K3 == <<"k", "3">>
H1 == <<"h", "1">>
H2 == <<"h", "2">>

ModuleBlock ==
  <<"m", "o", "d", "u", "l", "e", " ", Quote, "m", Quote, " ", "{", "\n",
    "}", "\n">>

\* lambda.tf: the declarations and what follows the locals block
TfRegistries ==
  {[tree |-> <<>>, rest |-> ModuleBlock],
   [tree |-> <<[key |-> K1, handler |-> H1]>>, rest |-> ModuleBlock],
   [tree |-> <<[key |-> K1, handler |-> H1]>>, rest |-> <<>>],
   [tree |-> <<[key |-> K1, handler |-> H1], [key |-> K2, handler |-> H2]>>,
    rest |-> ModuleBlock],
   [tree |-> <<[key |-> K1, handler |-> H1], [key |-> K2, handler |-> H1]>>,
    rest |-> ModuleBlock]}

ArnGetApi ==
  <<Quote, "$", "{", "m", "}", "/", "*", "/", "G", "E", "T", "/", "a", "p",
    "i", Quote>>
ArnPostApi ==
  <<Quote, "$", "{", "m", "}", "/", "a", "p", "i", "/", "P", "O", "S", "T",
    "/", "a", "p", "i", Quote>>
ArnAll ==
  <<Quote, "$", "{", "m", "}", "/", "*", "/", "*", "/", "*", Quote>>
OtherService ==
  <<"s", "n", "s", ".", "a", "m", "a", "z", "o", "n", "a", "w", "s", ".",
    "c", "o", "m">>

\* the permission group of k1, of k2 and of k3, <<>> when the key has none
TfGroupsK1 ==
  {<<>>,
   <<[key |-> K1, entries |->
        <<[principal |-> ApiGatewayService, source_arn |-> ArnGetApi]>>]>>,
   <<[key |-> K1, entries |->
        <<[principal |-> EventsService, source_arn |-> ArnGetApi]>>]>>,
   <<[key |-> K1, entries |->
        <<[principal |-> ApiGatewayService, source_arn |-> ArnAll]>>]>>,
   <<[key |-> K1, entries |->
        <<[principal |-> OtherService, source_arn |-> ArnGetApi]>>]>>}
TfGroupsK2 ==
  {<<>>,
   <<[key |-> K2, entries |->
        <<[principal |-> ApiGatewayService, source_arn |-> ArnPostApi]>>]>>}
TfGroupsK3 == {<<>>, <<[key |-> K3, entries |-> <<>>]>>}

\* lambda_permissions.tf: the groups, and comment lines before the block
TfPermissions ==
  {[tree |-> g1 \o g2 \o g3, note |-> note] :
     g1 \in TfGroupsK1, g2 \in TfGroupsK2, g3 \in TfGroupsK3,
     note \in {<<>>,
       <<"#", " ", "k", "1", "\n">>}}

TfGatewayLines ==
  {
   <<" ", "a", "1", " ", ":", " ", "k", "1">>,
   <<" ", "a", "2", " ", ":", " ", "k", "2">>,
   <<" ", "b", "1", " ", ":", " ", "k", "1">>,
   <<" ", "c", "1", " ", ":", " ", "k", "1", ",", " ", "k", "2">>,
   <<" ", "#", " ", "a", "1", " ", ":", " ", "k", "1">>}

\* step_function.tf: None when the file does not exist, else its lines
TfStepFiles ==
  {NoneOpt, Some(<<>>),
   Some(<<
     <<"m", "o", "d", "u", "l", "e", ".", "l", "a", "m", "b", "d", "a",
       "[", Quote, "k", "1", Quote, "]">>>>)}

TfInput(files_ok, has_lambda, has_permissions, has_api_gw, reg, perm, gw, sf) ==
  [files_ok |-> files_ok, has_lambda |-> has_lambda,
   has_permissions |-> has_permissions, has_api_gw |-> has_api_gw,
   registry |-> reg, permissions |-> perm, api_gw |-> gw, step_fn |-> sf]

\* every directory with its three files, and the directories where a file
\* does not parse or does not exist
TfInputs ==
  {TfInput(TRUE, TRUE, TRUE, TRUE, reg, perm, gw, sf) :
     reg \in TfRegistries, perm \in TfPermissions,
     gw \in SeqUpTo(TfGatewayLines, MaxLines), sf \in TfStepFiles}
  \cup
  {TfInput(f[1], f[2], f[3], f[4], reg, perm, <<>>, NoneOpt) :
     f \in {<<FALSE, TRUE, TRUE, TRUE>>, <<TRUE, FALSE, TRUE, TRUE>>,
            <<TRUE, TRUE, FALSE, TRUE>>, <<TRUE, TRUE, TRUE, FALSE>>},
     reg \in TfRegistries, perm \in TfPermissions}

TfInit ==
  /\ tf_in \in TfInputs
  /\ tf_pc = "files"
  /\ tf_lambdas = <<>>
  /\ tf_log = <<>>
  /\ tf_stages = <<>>
  /\ tf_result = [status |-> "none", value |-> NoneOpt]

\* the stage has returned r: the `?` of validate_terraform
TfAfter(stage, r, next) ==
  /\ tf_stages' = Append(tf_stages, stage)
  /\ tf_log' = tf_log \o [k \in 1..Len(r.log) |->
                            [stage |-> stage, line |-> r.log[k]]]
  /\ IF r.status = "Ok"
     THEN /\ tf_lambdas' = r.data
          /\ tf_pc' = next
          /\ tf_result' = IF next = "done"
                          THEN [status |-> "Ok", value |-> Some(r.data)]
                          ELSE tf_result
     ELSE /\ tf_lambdas' = tf_lambdas
          /\ tf_pc' = "done"
          /\ tf_result' = [status |-> r.status, value |-> NoneOpt]

\* a file does not exist: return Err(..)
TfMissing ==
  /\ tf_pc' = "done"
  /\ tf_result' = [status |-> "Err", value |-> NoneOpt]
  /\ UNCHANGED <<tf_lambdas, tf_log, tf_stages>>

\* terraform.rs:56, 142-150
TfFiles ==
  /\ tf_pc = "files"
  /\ IF tf_in.files_ok
     THEN tf_pc' = "lambda" /\ UNCHANGED <<tf_lambdas, tf_log, tf_stages, tf_result>>
     ELSE TfMissing
  /\ UNCHANGED <<tf_in, cv_vars, fw_vars, arn_vars, reg_vars, oa_vars,
                 int_vars>>

\* terraform.rs:61-65
TfLambda ==
  /\ tf_pc = "lambda"
  /\ IF tf_in.has_lambda
     THEN TfAfter("registry",
                  validate_lambda(tf_in.registry.tree,
                                  RenderRegistry(tf_in.registry.tree,
                                                 tf_in.registry.rest)),
                  "permissions")
     ELSE TfMissing
  /\ UNCHANGED <<tf_in, cv_vars, fw_vars, arn_vars, reg_vars, oa_vars,
                 int_vars>>

\* terraform.rs:66-73
TfPermission ==
  /\ tf_pc = "permissions"
  /\ IF tf_in.has_permissions
     THEN TfAfter("permission",
                  validate_lambda_permissions(
                    tf_in.permissions.tree,
                    RenderPermissionFile(tf_in.permissions.tree,
                                         tf_in.permissions.note),
                    tf_lambdas),
                  "api_gw")
     ELSE TfMissing
  /\ UNCHANGED <<tf_in, cv_vars, fw_vars, arn_vars, reg_vars, oa_vars,
                 int_vars>>

\* terraform.rs:74-81
TfGateway ==
  /\ tf_pc = "api_gw"
  /\ IF tf_in.has_api_gw
     THEN TfAfter("gateway", extract_api_gw(tf_in.api_gw, tf_lambdas),
                  IF IsSome(tf_in.step_fn) THEN "step_fn" ELSE "coherence")
     ELSE TfMissing
  /\ UNCHANGED <<tf_in, cv_vars, fw_vars, arn_vars, reg_vars, oa_vars,
                 int_vars>>

\* terraform.rs:82-83
TfStepFunction ==
  /\ tf_pc = "step_fn"
  /\ TfAfter("state_machine",
             extract_step_function(tf_lambdas, Unwrap(tf_in.step_fn)),
             "coherence")
  /\ UNCHANGED <<tf_in, cv_vars, fw_vars, arn_vars, reg_vars, oa_vars,
                 int_vars>>

\* terraform.rs:84-125
TfCoherence ==
  /\ tf_pc = "coherence"
  /\ TfAfter("coherence", Coherence(tf_lambdas, IsSome(tf_in.step_fn)), "done")
  /\ UNCHANGED <<tf_in, cv_vars, fw_vars, arn_vars, reg_vars, oa_vars,
                 int_vars>>

InitTerraform ==
  TfInit /\ CvIdle /\ FwIdle /\ ArnIdle /\ RegIdle /\ OaIdle /\ IntIdle

NextTerraform ==
  \/ TfFiles
  \/ TfLambda
  \/ TfPermission
  \/ TfGateway
  \/ TfStepFunction
  \/ TfCoherence

SpecTerraform == InitTerraform /\ [][NextTerraform]_vars

----------------------------------------------------------------------------
(* Properties of cross_validation (specification Spec)                     *)

Done == cv_pc = "done"

LogIndexes(sev, msgs) ==
  {k \in 1..Len(cv_log) : cv_log[k].sev = sev /\ cv_log[k].msg \in msgs}

ForwardMsgs == {"path_not_in_openapi", "method_not_in_openapi", "uri_without_arn"}
ReverseMsgs == {"path_not_in_terraform", "method_not_in_terraform"}
WarnMsgs == {"sqs_not_handled", "step_function_not_handled"}

\* The items of `data` a route selects: same path, and same method unless the
\* route has the any-method wildcard
SamePath(data, api) == {e \in 1..Len(data) : data[e].path = api.route}
Selected(data, api) ==
  {e \in SamePath(data, api) : api.method = "ANY" \/ data[e].method = api.method}

\* The forward check of one route, stated on the lists
ForwardHolds(data, arn_key, api) ==
  /\ SamePath(data, api) # {}
  /\ Selected(data, api) # {}
  /\ \A e \in Selected(data, api) :
       data[e].execution_type = "Lambda" => Contains(data[e].uri, arn_key)

\* The routes (lambda index, route index) of lambda_data
AllRoutes ==
  {<<i, j>> \in (1..Len(lambda_data)) \X (1..MaxApis + 1) :
     j <= Len(lambda_data[i].apis)}
RouteOf(r) == lambda_data[r[1]].apis[r[2]]
CheckedRoutes == {r \in AllRoutes : IsSome(lambda_data[r[1]].arn_template_key)}
ForwardFails(r) ==
  ~ForwardHolds(open_api_data, Unwrap(lambda_data[r[1]].arn_template_key), RouteOf(r))

\* The reverse check of one endpoint, stated on the lists
RoutesAt(path) == {r \in AllRoutes : RouteOf(r).route = path}
NoPath(e) == RoutesAt(open_api_data[e].path) = {}
NoMethod(e) ==
  /\ ~NoPath(e)
  /\ \A r \in RoutesAt(open_api_data[e].path) :
       RouteOf(r).method # open_api_data[e].method /\ RouteOf(r).method # "ANY"
ReverseFails(e) ==
  open_api_data[e].execution_type = "Lambda" /\ (NoPath(e) \/ NoMethod(e))
ReverseLogged(e, msgs) ==
  \E k \in LogIndexes("error", msgs) :
     cv_log[k].method = open_api_data[e].method /\ cv_log[k].path = open_api_data[e].path

\* C1: cross_validation returns Ok iff no error was logged in either pass; it
\* returns Err exactly when a route of a lambda with a placeholder fails the
\* forward check or a Lambda endpoint fails the reverse check; the warnings
\* for StepFunction and SQS endpoints do not change the result.
C1_Verdict ==
  Done =>
    /\ cv_result \in {"Ok", "Err"}
    /\ (cv_result = "Ok") = (\A k \in 1..Len(cv_log) : cv_log[k].sev # "error")
    /\ (cv_result = "Err") =
         ((\E r \in CheckedRoutes : ForwardFails(r))
          \/ (\E e \in 1..Len(open_api_data) : ReverseFails(e)))

\* a run that returns Ok although warnings were logged and a route was checked
C1_Witness ==
  /\ Done
  /\ cv_result = "Ok"
  /\ LogIndexes("warn", WarnMsgs) # {}
  /\ CheckedRoutes # {}

\* C3: after the reverse pass an endpoint has an error iff it is a Lambda
\* endpoint and no route has its path ("path" error), or routes have its path
\* but none has its method or the any-method wildcard ("method" error);
\* StepFunction and SQS endpoints never have an error.
C3_ReverseErrors ==
  cv_pc \in {"verdict", "done"} =>
    /\ \A e \in 1..Len(open_api_data) :
         /\ ReverseLogged(e, {"path_not_in_terraform"}) =
              (open_api_data[e].execution_type = "Lambda" /\ NoPath(e))
         /\ ReverseLogged(e, {"method_not_in_terraform"}) =
              (open_api_data[e].execution_type = "Lambda" /\ NoMethod(e))
    /\ Cardinality(LogIndexes("error", ReverseMsgs)) =
         Cardinality({e \in 1..Len(open_api_data) : ReverseFails(e)})

\* a StepFunction endpoint on a path without routes (no error) next to a Lambda
\* endpoint that is covered by an any-method route only
C3_Witness ==
  /\ Done
  /\ \E e \in 1..Len(open_api_data) :
       open_api_data[e].execution_type # "Lambda" /\ NoPath(e)
  /\ \E e \in 1..Len(open_api_data) :
       /\ open_api_data[e].execution_type = "Lambda"
       /\ ~ReverseFails(e)
       /\ \A r \in RoutesAt(open_api_data[e].path) : RouteOf(r).method = "ANY"

\* C4: both passes run to the end: at the return every failing route of every
\* lambda with a placeholder has its forward error, every failing Lambda
\* endpoint has its reverse error and every other endpoint its warning,
\* whatever was logged before.
C4_BothPassesComplete ==
  Done =>
    /\ \A r \in CheckedRoutes :
         ForwardFails(r) =>
           \E k \in LogIndexes("error", ForwardMsgs) :
              /\ cv_log[k].key = lambda_data[r[1]].key
              /\ cv_log[k].method = RouteOf(r).method
              /\ cv_log[k].path = RouteOf(r).route
    /\ \A e \in 1..Len(open_api_data) :
         ReverseFails(e) => ReverseLogged(e, ReverseMsgs)
    /\ Cardinality(LogIndexes("warn", WarnMsgs)) =
         Cardinality({e \in 1..Len(open_api_data) :
                        open_api_data[e].execution_type # "Lambda"})

\* forward errors of two lambdas and a reverse error on another path in one run
C4_Witness ==
  /\ Done
  /\ \E k1, k2 \in LogIndexes("error", ForwardMsgs) :
       /\ cv_log[k1].key # cv_log[k2].key
       /\ \E k3 \in LogIndexes("error", ReverseMsgs) :
            cv_log[k3].path # cv_log[k1].path /\ cv_log[k3].path # cv_log[k2].path

\* C5: a lambda with a placeholder that occurs nowhere in the text of the
\* OpenAPI document gets exactly one "placeholder not used" error and the
\* result is Err.
C5_PlaceholderNeverReferenced ==
  Done =>
    \A i \in 1..Len(lambda_data) :
      (/\ IsSome(lambda_data[i].arn_template_key)
       /\ ~Contains(SpecText(open_api_data, 1), Unwrap(lambda_data[i].arn_template_key)))
      => /\ Cardinality({k \in LogIndexes("error", {"arn_not_used"}) :
                           cv_log[k].key = lambda_data[i].key}) = 1
         /\ cv_result = "Err"

----------------------------------------------------------------------------
(* Properties of validate_lambda_against_open_api (specification           *)
(* SpecForward)                                                            *)

\* C2: validate_lambda_against_open_api returns true iff (a) an item has the
\* path of the route, (b) one of those has the method of the route or the
\* route has the any-method wildcard, and (c) every Lambda item selected by
\* (a) and (b) has a uri that contains the placeholder; selected StepFunction
\* and SQS items need not contain it.
C2_ForwardCheck ==
  fw_result # <<>> => fw_result[1] = ForwardHolds(fw_data, fw_arn_key, fw_api)

\* true is returned for an any-method route that selects a Lambda item with
\* the placeholder and another item without it
C2_Witness ==
  /\ fw_result = <<TRUE>>
  /\ fw_api.method = "ANY"
  /\ \E e \in Selected(fw_data, fw_api) :
       fw_data[e].execution_type = "Lambda" /\ Contains(fw_data[e].uri, fw_arn_key)
  /\ \E e \in Selected(fw_data, fw_api) :
       fw_data[e].execution_type # "Lambda" /\ ~Contains(fw_data[e].uri, fw_arn_key)

\* the text of a step function in a uri, either form
HoldsStepFunctionText(uri) ==
  \E i \in 1..Len(uri) :
    MatchAt(uri, <<"s", "t", "a", "t", "e">>, i)
      /\ (MatchAt(uri, <<":", "a", "c", "t", "i", "o", "n">>, i + 5)
          \/ MatchAt(uri, <<"s", ":", "a", "c", "t", "i", "o", "n">>, i + 5))

\* C20: validate_lambda_against_open_api returns false for a route that
\* selects a Lambda item whose uri holds the text of a step function, also
\* when that uri holds the placeholder.
C20_StepFunctionUriFails ==
  fw_result # <<>> =>
    ((\E e \in Selected(fw_data, fw_api) :
        /\ fw_data[e].execution_type = "Lambda"
        /\ HoldsStepFunctionText(fw_data[e].uri))
     => fw_result[1] = FALSE)

----------------------------------------------------------------------------
(* Properties of handle_api_gateway_lambda (specification SpecArn)         *)

\* handle_api_gateway_lambda has returned or panicked
ArnReturned == arn_pc \in {"push", "done"}

\* the permission source string: the source_arn expression without its quotes
Body == SubSeq(source_arn, 2, Len(source_arn) - 1)

\* where the wildcards, the slashes and the closing braces of Body are
StarsAt == {i \in 1..Len(Body) : Body[i] = "*"}
SlashesAt == {i \in 1..Len(Body) : Body[i] = "/"}
BracesAt == {i \in 1..Len(Body) : Body[i] = "}"}

\* Body is <prefix>/*/<METHOD>/<path...>: its only wildcard is at i, <METHOD>
\* is Body[i+2..j-1] and <path...> is what follows the slash at j
SingleShape(i, j) ==
  /\ StarsAt = {i}
  /\ i >= 2 /\ Body[i - 1] = "/"
  /\ i + 3 <= j /\ j < Len(Body)
  /\ Body[i + 1] = "/" /\ Body[j] = "/"
  /\ \A k \in (i + 2)..(j - 1) : Body[k] # "/"

SingleMethod(i, j) == SubSeq(Body, i + 2, j - 1)
SinglePath(j) == SubSeq(Body, j + 1, Len(Body))

\* C6: for a source string <prefix>/*/<METHOD>/<path...> with exactly one
\* wildcard, handle_api_gateway_lambda returns <<METHOD, "/" path...>>, with
\* every further segment, query string, fragment and trailing slash of the
\* path unchanged.
C6_SingleWildcard ==
  ArnReturned =>
    \A i \in StarsAt : \A j \in SlashesAt :
      SingleShape(i, j) =>
        arn_data = OkData(<<SingleMethod(i, j), Slash \o SinglePath(j)>>)

\* a single wildcard string with a path of several segments, a query string
\* and a fragment has been resolved and pushed
C6_Witness ==
  /\ arn_pc = "done"
  /\ arn_api.status = "Ok"
  /\ \E i \in StarsAt : \E j \in SlashesAt :
       /\ SingleShape(i, j)
       /\ Contains(SinglePath(j), Slash)
       /\ Contains(SinglePath(j), <<"#">>)

\* C7: a source string that contains "/*/*/*" makes handle_api_gateway_lambda
\* return Err and no route is pushed, whatever else the string contains.
C7_TooPermissive ==
  (ArnReturned /\ Contains(Body, ThreeWildcards)) =>
    /\ arn_data = ErrData
    /\ arn_pc = "done"
    /\ arn_api = NoRoute

\* "/*/*/*" was refused in a string that ends with it and also holds a method
\* token, which the later rules would have resolved
C7_Witness ==
  /\ arn_pc = "done"
  /\ arn_data = ErrData
  /\ MatchAt(Body, ThreeWildcards, Len(Body) - 5)
  /\ Contains(Body, <<"G", "E", "T">>)

MethodTokens == {HttpMethodToString(ScanOrder[k]) : k \in 1..Len(ScanOrder)}

\* the places where a method token occurs in Body
TokenHits == {<<i, t>> \in (1..Len(Body)) \X MethodTokens : MatchAt(Body, t, i)}

\* Body is <prefix>}/<a>/<METHOD>/<b>: the brace at i, the slash before
\* <METHOD> at j, <METHOD> = t, <b> not empty, and no other method token
PlainShape(i, j, t) ==
  /\ Body[i] = "}" /\ i + 2 < j
  /\ Body[i + 1] = "/" /\ Body[j] = "/"
  /\ \A k \in (i + 2)..(j - 1) : Body[k] # "/"
  /\ j + Len(t) + 1 < Len(Body)
  /\ Body[j + Len(t) + 1] = "/"
  /\ StarsAt = {}
  /\ TokenHits = {<<j + 1, t>>}

PlainPath(i, j, t) ==
  SubSeq(Body, i + 1, j - 1) \o SubSeq(Body, j + Len(t) + 1, Len(Body))

\* C8: for a wildcard-free source string <prefix>}/<a>/<METHOD>/<b> with one
\* method token, handle_api_gateway_lambda returns <<METHOD, "/<a>/<b>">>.
C8_PlainMethod ==
  ArnReturned =>
    \A i \in BracesAt : \A j \in SlashesAt : \A t \in MethodTokens :
      PlainShape(i, j, t) => arn_data = OkData(<<t, PlainPath(i, j, t)>>)

\* Body is <prefix>/*/*/<rest...>: its two wildcards are at i and i + 2
DoubleShape(i) ==
  /\ StarsAt = {i, i + 2}
  /\ i >= 2 /\ Body[i - 1] = "/"
  /\ Body[i + 1] = "/"
  /\ i + 3 <= Len(Body) /\ Body[i + 3] = "/"

DoubleRest(i) == SubSeq(Body, i + 4, Len(Body))

\* C9: for a source string <prefix>/*/*/<rest...> with exactly two wildcards,
\* handle_api_gateway_lambda returns <<any-method token, "/" rest...>> and
\* the conversion of that method to the route's HttpMethod does not fail.
C9_AnyMethod ==
  arn_pc = "done" =>
    \A i \in StarsAt :
      DoubleShape(i) =>
        /\ arn_data = OkData(<<AnyToken, Slash \o DoubleRest(i)>>)
        /\ arn_api.status = "Ok"
        /\ arn_api.route = Slash \o DoubleRest(i)

\* C21: handle_api_gateway_lambda gives every source string back as a
\* value, Ok or Err: no string makes it abort, in particular not a string no
\* rule classifies (no wildcard and no method token it scans for) and not a
\* single wildcard string with nothing after the method segment.
C21_NeverAborts ==
  ArnReturned => arn_data.status \in {"Ok", "Err"}

\* Body opens with the interpolation "${m}"; the text after this prefix
HasPrefix == Len(Body) >= 4 /\ SubSeq(Body, 1, 4) = <<"$", "{", "m", "}">>
AfterPrefix == SubSeq(Body, 5, Len(Body))

\* the tokens of the scan that occur in the text after the prefix, by their
\* place in the order GET, POST, PUT, DELETE, PATCH
TokensAfterPrefix ==
  {k \in 1..Len(ScanOrder) :
     \E h \in TokenHits : h[1] >= 5 /\ h[2] = HttpMethodToString(ScanOrder[k])}
EarliestToken ==
  HttpMethodToString(
    ScanOrder[CHOOSE k \in TokensAfterPrefix :
                \A h \in TokensAfterPrefix : k <= h])

\* C29: for a wildcard-free source string whose text after the prefix holds
\* a method token, handle_api_gateway_lambda returns the earliest token of
\* the order GET, POST, PUT, DELETE, PATCH that the text holds anywhere (not
\* the leftmost one) and the text without every "/<METHOD>" of that token.
C29_FixedOrder ==
  (ArnReturned /\ StarsAt = {} /\ HasPrefix /\ TokensAfterPrefix # {}) =>
    arn_data = OkData(<<EarliestToken,
                        replace(AfterPrefix, Slash \o EarliestToken, <<>>)>>)

----------------------------------------------------------------------------
(* Properties of validate_lambda (specification SpecLambda)                *)

\* the pairs of declarations with different keys and the same handler
SameHandlerPairs ==
  {p \in (1..Len(reg_tree)) \X (1..Len(reg_tree)) :
     /\ p[1] < p[2]
     /\ reg_tree[p[1]].key # reg_tree[p[2]].key
     /\ reg_tree[p[1]].handler = reg_tree[p[2]].handler}

HandlerLogged(p) ==
  \E k \in 1..Len(reg_log) :
    reg_log[k] = HandlerError(reg_tree[p[1]].key, reg_tree[p[2]].key,
                              reg_tree[p[2]].handler)

\* C10: when two declarations with different keys have the same handler,
\* validate_lambda does not return Ok, wherever the two declarations stand
\* and however many there are: it returns Err, after an error line for the
\* pair, whenever it gets as far as the checks.
C10_SameHandlerFails ==
  (reg_pc = "done" /\ SameHandlerPairs # {}) =>
    /\ reg_result # "Ok"
    /\ IsSome(reg_locals) =>
         /\ reg_result = "Err"
         /\ \A p \in SameHandlerPairs : HandlerLogged(p)

\* three declarations, the last two share a handler, no key error is
\* reported, and validate_lambda has returned Err
C10_Witness ==
  /\ reg_pc = "done"
  /\ reg_result = "Err"
  /\ Len(reg_tree) = 3
  /\ SameHandlerPairs = {<<2, 3>>}
  /\ \A k \in 1..Len(reg_log) : reg_log[k].msg = "same_handler"

\* the declarations whose key occurs more than once in the text of lambda.tf
RepeatedKeys ==
  {i \in 1..Len(reg_tree) : matches_count(lambda_contents, reg_tree[i].key) > 1}

KeyLogged(i) ==
  \E k \in 1..Len(reg_log) : reg_log[k] = KeyError(reg_tree[i].key)

\* C11: when validate_lambda has run through (it did not abort), every
\* declared key that occurs more than once in the text of lambda.tf has its
\* duplicate-key error line and the result is Err; this includes the last
\* declaration and a registry of one declaration.
C11_RepeatedKeyFails ==
  (reg_pc = "done" /\ reg_result # "panic") =>
    \A i \in RepeatedKeys : reg_result = "Err" /\ KeyLogged(i)

\* the pairs of declarations with the same key
SameKeyPairs ==
  {p \in (1..Len(reg_tree)) \X (1..Len(reg_tree)) :
     p[1] < p[2] /\ reg_tree[p[1]].key = reg_tree[p[2]].key}

\* C30: a lambda.tf whose declarations have pairwise different keys and
\* pairwise different handlers makes validate_lambda return Ok without an
\* error line, also when the text of a key occurs in a handler or elsewhere
\* in the text; validate_lambda does not abort while it cuts the text.
C30_DistinctAccepted ==
  (reg_pc = "done" /\ SameKeyPairs = {} /\ SameHandlerPairs = {}) =>
    /\ reg_result = "Ok"
    /\ reg_log = <<>>

----------------------------------------------------------------------------
(* Properties of extract_api_data (specification SpecOpenApi)              *)

OaDone == oa_pc = "done"

\* the operations of the document: <<index of the path item, method>>
DeclaredOps ==
  {<<i, m>> \in (1..Len(oa_doc)) \X DocMethods : m \in DOMAIN oa_doc[i].ops}

OpAt(o) == oa_doc[o[1]].ops[o[2]]

\* the operations of GET, POST, PUT, PATCH and DELETE
BuiltOps ==
  {o \in DeclaredOps : o[2] \in {"GET", "POST", "PUT", "PATCH", "DELETE"}}

\* the endpoints extract_api_data returned, none when it returned no list
Returned ==
  IF IsSome(oa_result.value) THEN Unwrap(oa_result.value) ELSE <<>>

HasMarker(uri) ==
  \/ Contains(uri, StatesMarker)
  \/ Contains(uri, LambdaMarker)
  \/ Contains(uri, SqsMarker)

\* C12: every endpoint returned is StepFunction when its uri holds
\* "states:action", else Lambda when it holds "lambda:path", else SQS (it
\* then holds "sqs:action"); and a document with an operation whose uri
\* holds none of the three gets no endpoint list but the unknown execution
\* type error for such a uri (unless an operation without uri aborted first).
C12_Classification ==
  OaDone =>
    /\ \A k \in 1..Len(Returned) :
         Returned[k].execution_type =
           IF Contains(Returned[k].uri, StatesMarker) THEN "StepFunction"
           ELSE IF Contains(Returned[k].uri, LambdaMarker) THEN "Lambda"
           ELSE IF Contains(Returned[k].uri, SqsMarker) THEN "SQS"
           ELSE "none"
    /\ (\E o \in BuiltOps : IsSome(OpAt(o).uri) /\ ~HasMarker(Unwrap(OpAt(o).uri)))
         => /\ oa_result.value = NoneOpt
            /\ oa_result.status \in {"Err", "panic"}
            /\ (\A o \in BuiltOps : IsSome(OpAt(o).uri))
                 => /\ oa_result.status = "Err"
                    /\ oa_err.msg = "unknown_execution_type"
                    /\ ~HasMarker(oa_err.uri)

\* a list was returned with a StepFunction endpoint whose uri also holds
\* "lambda:path" and a Lambda endpoint whose uri also holds "sqs:action"
C12_Witness ==
  /\ OaDone
  /\ oa_result.status = "Ok"
  /\ \E k \in 1..Len(Returned) :
       /\ Returned[k].execution_type = "StepFunction"
       /\ Contains(Returned[k].uri, LambdaMarker)
  /\ \E k \in 1..Len(Returned) :
       /\ Returned[k].execution_type = "Lambda"
       /\ Contains(Returned[k].uri, SqsMarker)

\* the POST, PUT and PATCH operations without request body and parameters
BareOps ==
  {o \in BuiltOps : /\ o[2] \in {"POST", "PUT", "PATCH"}
                    /\ ~OpAt(o).request_body
                    /\ ~OpAt(o).parameters}

\* every operation extract_api_data looks at has a uri with a marker
AllClassified ==
  \A o \in BuiltOps : IsSome(OpAt(o).uri) /\ HasMarker(Unwrap(OpAt(o).uri))

InLog(line) == \E k \in 1..Len(oa_log) : oa_log[k] = line

\* C15: a document with a POST, PUT or PATCH operation that has no request
\* body and no parameter makes extract_api_data return an error, the one
\* that names the method and the path (documents where another operation
\* fails for its uri are left out).
C15_NoBodyIsError ==
  (OaDone /\ AllClassified) =>
    \A o \in BareOps :
      /\ oa_result.status = "Err"
      /\ oa_err.msg = "no_request_body_or_parameters"

C17_OtherMethodFails ==
  (OaDone /\ DeclaredOps \ BuiltOps # {}) => oa_result.status # "Ok"

----------------------------------------------------------------------------
(* Properties of validate_terraform (specification SpecTerraform)          *)

TfDone == tf_pc = "done"

\* the stages in the order of the claim; the state machine stage belongs to
\* it only when step_function.tf exists
StageOrder ==
  IF IsSome(tf_in.step_fn)
  THEN <<"registry", "permission", "gateway", "state_machine", "coherence">>
  ELSE <<"registry", "permission", "gateway", "coherence">>

IsPrefix(a, b) == Len(a) <= Len(b) /\ a = SubSeq(b, 1, Len(a))

\* the error lines that make their stage fail; the two other lines of the
\* coherence checks only report
StageErrors ==
  {"key_duplicated", "same_handler", "extra_key", "used_more_than_once",
   "not_used_in_api_gateway"}

ErrorLines == {k \in 1..Len(tf_log) : tf_log[k].line.msg \in StageErrors}

PermTree == tf_in.permissions.tree
PermText == RenderPermissionFile(PermTree, tf_in.permissions.note)
RegistryKeys ==
  {tf_in.registry.tree[i].key : i \in 1..Len(tf_in.registry.tree)}
GroupKeys == {PermTree[g].key : g \in 1..Len(PermTree)}
\* the permissions: <<index of the group, index in the group>>
PermEntries ==
  UNION {{<<g, k>> : k \in 1..Len(PermTree[g].entries)} :
           g \in 1..Len(PermTree)}
PermEntry(p) == PermTree[p[1]].entries[p[2]]

\* validate_lambda_permissions has returned Ok, has returned with st
PermissionPassed ==
  Len(tf_stages) >= 2 /\ ~(tf_pc = "done" /\ Len(tf_stages) = 2)
PermissionFailed(st) ==
  /\ tf_pc = "done"
  /\ tf_stages = <<"registry", "permission">>
  /\ tf_in.has_api_gw
  /\ tf_result.status = st
PermissionReturned ==
  PermissionPassed \/ \E st \in {"Err", "panic"} : PermissionFailed(st)
PermissionLogged(msg, key) ==
  \E k \in 1..Len(tf_log) :
    /\ tf_log[k].stage = "permission"
    /\ tf_log[k].line.msg = msg
    /\ tf_log[k].line.key = key

KnownPrincipal(e) ==
  e.principal \in {ApiGatewayService, EventsService, SchedulerService}
\* the source string of a gateway permission that the resolver refuses
Refused(e) ==
  e.principal = ApiGatewayService /\ Contains(e.source_arn, ThreeWildcards)
\* no permission has an unknown principal or a refused source string
CleanEntries ==
  \A p \in PermEntries : KnownPrincipal(PermEntry(p)) /\ ~Refused(PermEntry(p))

\* C22: a permission whose principal is none of the three services makes
\* the permission stage end with Err (a result, not an abort) when nothing
\* else is wrong with the file; and after a stage that passed, a lambda whose
\* permission has the gateway principal is ApiGateway, one whose permission
\* has the event-bus or the scheduler principal is EventBridge.
C22_UnknownPrincipalIsError ==
  PermissionReturned =>
    /\ (/\ GroupKeys \subseteq RegistryKeys
        /\ \A p \in PermEntries : ~Refused(PermEntry(p))
        /\ \E p \in PermEntries : ~KnownPrincipal(PermEntry(p)))
         => PermissionFailed("Err")
    /\ PermissionPassed =>
         \A p \in PermEntries : \A i \in 1..Len(tf_lambdas) :
           tf_lambdas[i].key = PermTree[p[1]].key =>
             tf_lambdas[i].lambda_type =
               IF PermEntry(p).principal = ApiGatewayService
               THEN "ApiGateway" ELSE "EventBridge"

\* C23: a key of lambdas_permissions that is no key of lambda.tf gets the
\* "extra key" error and the permission stage ends with Err, with or without
\* permissions under the key and however often the key occurs in the text
\* (files where a permission itself is refused are left out).
C23_ExtraKeyIsError ==
  (PermissionReturned /\ CleanEntries) =>
    \A key \in GroupKeys \ RegistryKeys :
      /\ PermissionFailed("Err")
      /\ PermissionLogged("extra_key", key)

\* the routes the permissions of a group attach to its lambda
RoutesOf(g) ==
  Cardinality({p \in PermEntries :
                 p[1] = g /\ PermEntry(p).principal = ApiGatewayService})

\* C24: a key of lambdas_permissions (a key of lambda.tf) that occurs in the
\* text of the file a number of times other than the number of routes of
\* its lambda gets the "key is duplicated" error and the stage ends with
\* Err, also when the key occurs once.
C24_CountMatchesRoutes ==
  (PermissionReturned /\ CleanEntries /\ GroupKeys \subseteq RegistryKeys) =>
    \A g \in 1..Len(PermTree) :
      matches_count(PermText, PermTree[g].key) # RoutesOf(g) =>
        /\ PermissionFailed("Err")
        /\ PermissionLogged("key_duplicated", PermTree[g].key)

\* C28: when the resolver refuses the source string of a permission, the
\* groups after it are still checked before the stage returns: a later key
\* that is no key of lambda.tf (and has no permission) gets its "extra key"
\* error.
C28_Accumulates ==
  PermissionReturned =>
    \A p \in PermEntries : \A g \in 1..Len(PermTree) :
      (/\ Refused(PermEntry(p))
       /\ PermTree[p[1]].key \in RegistryKeys
       /\ p[1] < g
       /\ PermTree[g].key \notin RegistryKeys
       /\ PermTree[g].entries = <<>>)
      => /\ PermissionFailed("Err")
         /\ PermissionLogged("extra_key", PermTree[g].key)

\* extract_api_gw has returned Ok, has returned Err
GatewayPassed ==
  Len(tf_stages) >= 3 /\ ~(tf_pc = "done" /\ Len(tf_stages) = 3)
GatewayFailed ==
  /\ tf_pc = "done"
  /\ tf_stages = <<"registry", "permission", "gateway">>
  /\ tf_result.status = "Err"
GatewayLogged(key) ==
  \E k \in 1..Len(tf_log) :
    /\ tf_log[k].stage = "gateway"
    /\ tf_log[k].line.msg = "used_more_than_once"
    /\ tf_log[k].line.key = key

\* line n of api_gateway.tf is a comment: its first character that is no
\* blank is '#', or its first two are "//"
FirstInk(line) ==
  IF \E p \in 1..Len(line) : line[p] \notin WhiteSpace
  THEN CHOOSE p \in 1..Len(line) :
         /\ line[p] \notin WhiteSpace
         /\ \A q \in 1..(p - 1) : line[q] \in WhiteSpace
  ELSE 0
IsComment(line) ==
  LET p == FirstInk(line)
  IN p > 0 /\ (line[p] = "#" \/ MatchAt(line, <<"/", "/">>, p))
\* the lines that are no comments and hold the key
NamingLines(key) ==
  {n \in 1..Len(tf_in.api_gw) :
     ~IsComment(tf_in.api_gw[n])
       /\ \E p \in 1..Len(tf_in.api_gw[n]) : MatchAt(tf_in.api_gw[n], key, p)}
\* the identifier left of the separator of the line
LeftOf(line) ==
  LET sep == CHOOSE p \in 1..Len(line) :
               line[p] = ":" /\ \A q \in 1..(p - 1) : line[q] # ":"
  IN SelectSeq(SubSeq(line, 1, sep - 1), LAMBDA ch : ch \notin WhiteSpace)

\* C25: a lambda whose key is on two or more lines of api_gateway.tf that
\* are no comments gets the "used more than once" error and extract_api_gw
\* returns Err; a lambda whose key is on comment lines only gets no
\* placeholder.
C25_DuplicateWiring ==
  /\ (GatewayPassed \/ GatewayFailed) =>
       \A i \in 1..Len(tf_lambdas) :
         Cardinality(NamingLines(tf_lambdas[i].key)) >= 2 =>
           GatewayFailed /\ GatewayLogged(tf_lambdas[i].key)
  /\ GatewayPassed =>
       \A i \in 1..Len(tf_lambdas) :
         NamingLines(tf_lambdas[i].key) = {} =>
           tf_lambdas[i].arn_template_key = NoneOpt

\* C26: after extract_api_gw returned Ok, every lambda whose key is on a
\* line of api_gateway.tf that is no comment has the identifier left of the
\* separator of that line as its placeholder, also when the line holds the
\* key of another lambda.
C26_EveryNamedLambda ==
  GatewayPassed =>
    \A i \in 1..Len(tf_lambdas) : \A n \in NamingLines(tf_lambdas[i].key) :
      tf_lambdas[i].arn_template_key = Some(LeftOf(tf_in.api_gw[n]))

\* the last checks of validate_terraform have run
CoherenceRan == TfDone /\ tf_stages = StageOrder
Wired(item) == IsSome(item.arn_template_key)
Routed(item) == item.apis # <<>>

\* C27: the last checks fail the build exactly when a lambda that no step
\* function refers to has routes and no placeholder; a lambda with routes,
\* no placeholder and a reference from a step function does not fail it, nor
\* does a lambda with a placeholder and no routes or one with nothing.
C27_StepFunctionExempt ==
  CoherenceRan =>
    (tf_result.status = "Ok"
       <=> \A i \in 1..Len(tf_lambdas) :
             (Routed(tf_lambdas[i]) /\ ~Wired(tf_lambdas[i]))
               => tf_lambdas[i].step_function)

\* C19: in a list that validate_terraform returns, every lambda whose
\* lambda_type is ApiGateway has at least one route.
C19_ApiGatewayHasRoute ==
  tf_result.status = "Ok" =>
    \A i \in 1..Len(Unwrap(tf_result.value)) :
      Unwrap(tf_result.value)[i].lambda_type = "ApiGateway"
        => Unwrap(tf_result.value)[i].apis # <<>>

----------------------------------------------------------------------------
(* validate_aws_api_gateway_integration on one operation and one ARN key   *)
(* (specification SpecIntegration)                                         *)

IntKeys == {<<"k", "1">>, <<"k", "2">>}
IntPrefixes == {<<>>, <<"a", "r", "n", ":">>}
IntBodies == {<<>>, <<"k", "1">>, <<"k", "2">>, <<"k">>}
IntActions ==
  {<<>>,
   <<"/", "l", "a", "m", "b", "d", "a", ":", "p", "a", "t", "h">>,
   <<"/", "s", "t", "a", "t", "e", "s", ":", "a", "c", "t", "i", "o", "n">>,
   <<"/", "s", "t", "a", "t", "e", ":", "a", "c", "t", "i", "o", "n">>}
IntUris ==
  {p \o b \o a : p \in IntPrefixes, b \in IntBodies, a \in IntActions}
IntConfigs ==
  {NoneOpt, Some([uri |-> NoneOpt]), Some([uri |-> Some(IntegrationNotAString)])}
    \cup {Some([uri |-> Some(StringValue(u))]) : u \in IntUris}

IntInit ==
  /\ int_config \in IntConfigs
  /\ int_arn_key \in IntKeys
  /\ int_pc = "extension"
  /\ int_valid = TRUE
  /\ int_log = <<>>
  /\ int_result = [status |-> "none", value |-> NoneOpt]

\* cross_validation.rs:112-113, 134-137
IntExtension ==
  /\ int_pc = "extension"
  /\ IF IsSome(int_config)
     THEN /\ int_pc' = "uri"
          /\ UNCHANGED <<int_valid, int_log>>
     ELSE /\ int_valid' = FALSE
          /\ int_log' = Append(int_log, NoExtensionError)
          /\ int_pc' = "return"
  /\ UNCHANGED <<int_config, int_arn_key, int_result, cv_vars, fw_vars,
                 arn_vars, reg_vars, oa_vars, tf_vars>>

\* cross_validation.rs:113-115, 129-132
IntUri ==
  /\ int_pc = "uri"
  /\ LET uri == Unwrap(int_config).uri
     IN IF ~IsSome(uri)
        THEN /\ int_valid' = FALSE
             /\ int_log' = Append(int_log, NoUriError)
             /\ int_pc' = "return"
             /\ UNCHANGED int_result
        ELSE IF ~IsSome(Unwrap(uri).as_str)
        THEN /\ int_result' = [status |-> "panic", value |-> NoneOpt]
             /\ int_pc' = "done"
             /\ UNCHANGED <<int_valid, int_log>>
        ELSE /\ int_pc' = "placeholder"
             /\ UNCHANGED <<int_valid, int_log, int_result>>
  /\ UNCHANGED <<int_config, int_arn_key, cv_vars, fw_vars, arn_vars,
                 reg_vars, oa_vars, tf_vars>>

\* cross_validation.rs:116-119
IntPlaceholder ==
  /\ int_pc = "placeholder"
  /\ IF MissingPlaceholder(Unwrap(Unwrap(Unwrap(int_config).uri).as_str),
                            int_arn_key)
     THEN /\ int_valid' = FALSE
          /\ int_log' = Append(int_log, NoPlaceholderError)
     ELSE UNCHANGED <<int_valid, int_log>>
  /\ int_pc' = "marker"
  /\ UNCHANGED <<int_config, int_arn_key, int_result, cv_vars, fw_vars,
                 arn_vars, reg_vars, oa_vars, tf_vars>>

\* cross_validation.rs:120-126
IntMarker ==
  /\ int_pc = "marker"
  /\ IF SetUpForStepFunctions(Unwrap(Unwrap(Unwrap(int_config).uri).as_str))
     THEN /\ int_valid' = FALSE
          /\ int_log' = Append(int_log, StepFunctionError)
     ELSE UNCHANGED <<int_valid, int_log>>
  /\ int_pc' = "return"
  /\ UNCHANGED <<int_config, int_arn_key, int_result, cv_vars, fw_vars,
                 arn_vars, reg_vars, oa_vars, tf_vars>>

\* cross_validation.rs:138
IntReturn ==
  /\ int_pc = "return"
  /\ int_result' = [status |-> "Ok", value |-> Some(int_valid)]
  /\ int_pc' = "done"
  /\ UNCHANGED <<int_config, int_arn_key, int_valid, int_log, cv_vars,
                 fw_vars, arn_vars, reg_vars, oa_vars, tf_vars>>

InitIntegration ==
  IntInit /\ CvIdle /\ FwIdle /\ ArnIdle /\ RegIdle /\ OaIdle /\ TfIdle

NextIntegration ==
  \/ IntExtension
  \/ IntUri
  \/ IntPlaceholder
  \/ IntMarker
  \/ IntReturn

SpecIntegration == InitIntegration /\ [][NextIntegration]_vars

----------------------------------------------------------------------------
(* Properties of validate_aws_api_gateway_integration (SpecIntegration)    *)

IntReturned == int_pc = "done" /\ int_result.status = "Ok"
IntUriText ==
  IF IsSome(int_config) /\ IsSome(Unwrap(int_config).uri)
  THEN Unwrap(Unwrap(int_config).uri).as_str
  ELSE NoneOpt

\* C14: validate_aws_api_gateway_integration returns true exactly when the
\* operation has the extension, the extension has a uri, the uri contains
\* the given ARN key and the uri does not contain the marker the function
\* looks for ("state:action"); it returns false without the extension,
\* without the uri, and with a uri that does not contain the ARN key.
C14_IntegrationVerdict ==
  IntReturned =>
    /\ Unwrap(int_result.value) =
         (/\ IsSome(IntUriText)
          /\ \E i \in 1..Len(Unwrap(IntUriText)) :
               MatchAt(Unwrap(IntUriText), int_arn_key, i)
          /\ ~\E i \in 1..Len(Unwrap(IntUriText)) :
               MatchAt(Unwrap(IntUriText), StateMarker, i))
    /\ ~IsSome(int_config) => Unwrap(int_result.value) = FALSE
    /\ (IsSome(int_config) /\ ~IsSome(Unwrap(int_config).uri)) =>
         Unwrap(int_result.value) = FALSE
    /\ (IsSome(IntUriText)
        /\ ~\E i \in 1..Len(Unwrap(IntUriText)) :
             MatchAt(Unwrap(IntUriText), int_arn_key, i)) =>
         Unwrap(int_result.value) = FALSE

\* a uri with the ARN key and the marker: the function has returned false
\* with the step-function line only
C14_Witness ==
  /\ IntReturned
  /\ int_result.value = Some(FALSE)
  /\ int_log = <<StepFunctionError>>

====
